---- MODULE Spec2Model ----
(***************************************************************************)
(* Model of resource_allocation_app.py: the fiscal calendar, the           *)
(* utilization aggregator (generate_monthly_utilization_chart), the        *)
(* quarterly matrix (generate_quarterly_availability_chart), the team      *)
(* summary (generate_team_utilization_summary) and the roster operations   *)
(* of the Streamlit script.                                                *)
(*                                                                         *)
(* Representation.                                                         *)
(*   - a date is [y, m, d]; a "YYYY-MM" month string and a "PTO_YYYY_MM"   *)
(*     column key are both the record [y, m];                              *)
(*   - a quarter label "Qn FYyyyy" is [q |-> n, fy |-> yyyy];              *)
(*   - PTO days have half-day granularity and are counted in half days;    *)
(*   - an unrounded float is the exact fraction [n, d] with d > 0;         *)
(*   - a value rounded with round(x, 1) is an integer number of tenths.    *)
(***************************************************************************)
EXTENDS Integers, Sequences, FiniteSets, TLC

VARIABLES
    current_date,          \* datetime.now() of the session
    aggrid_available,      \* whether st_aggrid could be imported
    engineer_file,         \* contents of engineers.csv
    engineers_df,          \* st.session_state.engineers_df
    full_engineers_data,   \* st.session_state.full_engineers_data, or NoValue
    monthly_assignments_df,\* st.session_state.monthly_assignments_df
    local_engineers_df,    \* the script's local engineers_df at the render
    ops,                   \* number of user interactions so far
    pc,                    \* position of the render / of the function under test
    utilization_data,      \* rows built by generate_monthly_utilization_chart
    availability_details,  \* availability_df returned by it
    availability_summary,  \* summary_df returned by it
    quarterly_data,        \* rows built by generate_quarterly_availability_chart
    engineer_metrics,      \* per-engineer values inside generate_team_utilization_summary
    quarterly_metrics,     \* rows built by generate_team_utilization_summary
    month_str,             \* argument of get_fiscal_quarter
    quarter_str,           \* its result, or the argument of get_quarter_months
    quarter_month_list,    \* result of get_quarter_months
    all_quarters,          \* argument of sort_quarters_chronologically
    sorted_quarters,       \* its result
    program_quarterly,     \* the grouped frame of the Quarterly Allocation Distribution
    fig_program_trend,     \* first value returned by generate_program_feature_quarterly_trends
    fig_feature_trend,     \* second value returned by it
    monthly_assignments_file, \* contents of monthly_assignments.csv as read
    exception              \* the exception that ended the call, or "None"

vars == <<current_date, aggrid_available, engineer_file, engineers_df,
          full_engineers_data, monthly_assignments_df, local_engineers_df, ops, pc,
          utilization_data, availability_details, availability_summary,
          quarterly_data, engineer_metrics, quarterly_metrics,
          month_str, quarter_str, quarter_month_list, all_quarters, sorted_quarters,
          program_quarterly, fig_program_trend, fig_feature_trend,
          monthly_assignments_file, exception>>

\* the variables of the calendar helpers, of the ledger projections and of the
\* ledger file
projection_vars == <<monthly_assignments_file, quarter_month_list, all_quarters, sorted_quarters, program_quarterly,
                     fig_program_trend, fig_feature_trend, exception>>

NoValue == [none |-> TRUE]

(***************************************************************************)
(* Arithmetic helpers                                                      *)
(***************************************************************************)
Max(a, b) == IF a >= b THEN a ELSE b
Min(a, b) == IF a <= b THEN a ELSE b

RECURSIVE Gcd(_, _)
Gcd(a, b) == IF b = 0 THEN a ELSE Gcd(b, a % b)
Abs(a) == IF a < 0 THEN -a ELSE a

\* fractions are kept in lowest terms
Frac(n, d) == LET g == Gcd(Abs(n), d) IN [n |-> n \div g, d |-> d \div g]
FracEq(a, b) == a.n * b.d = b.n * a.d
FracLt(a, b) == a.n * b.d < b.n * a.d
FracLe(a, b) == a.n * b.d <= b.n * a.d
FracAdd(a, b) == Frac(a.n * b.d + b.n * a.d, a.d * b.d)
FracSub(a, b) == Frac(a.n * b.d - b.n * a.d, a.d * b.d)
\* variant of FracMax0 without the clamp
FracMax0_unclamped(a) == a

FracMax0(a) == IF a.n < 0 THEN Frac(0, 1) ELSE a
FracMin(a, b) == IF FracLe(a, b) THEN a ELSE b

\* round(x, 1) for x >= 0: the nearest tenth, an exact tie going to the even tenth.
Round1(x) ==
    LET t == (10 * x.n) \div x.d
        r == (10 * x.n) % x.d
    IN  IF 2 * r > x.d THEN t + 1
        ELSE IF 2 * r < x.d THEN t
        ELSE IF t % 2 = 0 THEN t ELSE t + 1

RECURSIVE SumSeq(_)
SumSeq(s) == IF s = <<>> THEN 0 ELSE Head(s) + SumSeq(Tail(s))

RECURSIVE SumFrac(_)
SumFrac(s) == IF s = <<>> THEN Frac(0, 1) ELSE FracAdd(Head(s), SumFrac(Tail(s)))

RECURSIVE SumOver(_, _)
SumOver(f, S) ==
    IF S = {} THEN 0
    ELSE LET x == CHOOSE y \in S : TRUE IN f[x] + SumOver(f, S \ {x})

Range(s) == {s[i] : i \in DOMAIN s}

(***************************************************************************)
(* Calendar: datetime + timedelta(days=30*i) and strftime("%Y-%m")         *)
(***************************************************************************)
Date(y, m, d) == [y |-> y, m |-> m, d |-> d]
Month(y, m) == [y |-> y, m |-> m]

IsLeap(y) == (y % 4 = 0 /\ y % 100 # 0) \/ y % 400 = 0

DaysInMonth(y, m) ==
    IF m = 2 THEN (IF IsLeap(y) THEN 29 ELSE 28)
    ELSE IF m \in {4, 6, 9, 11} THEN 30 ELSE 31

RECURSIVE AddDays(_, _)
AddDays(date, n) ==
    LET left == DaysInMonth(date.y, date.m) - date.d
    IN  IF n <= left THEN Date(date.y, date.m, date.d + n)
        ELSE AddDays(IF date.m = 12 THEN Date(date.y + 1, 1, 1)
                                    ELSE Date(date.y, date.m + 1, 1),
                     n - left - 1)

StrftimeYm(date) == Month(date.y, date.m)

\* months = [ (now + timedelta(days=30*i)).strftime("%Y-%m") for i in range(12) ]
WindowMonths(now) == [i \in 1..12 |-> StrftimeYm(AddDays(now, 30 * (i - 1)))]

(***************************************************************************)
(* Fiscal calendar                                                         *)
(***************************************************************************)
Unknown == [q |-> 0, fy |-> 0]
QuarterLabel(q, fy) == [q |-> q, fy |-> fy]

\* datetime.strptime(month_str, "%Y-%m") succeeds
StrptimeOk_any_month(ms) == DOMAIN ms = {"y", "m"}

StrptimeOk(ms) == DOMAIN ms = {"y", "m"} /\ ms.m \in 1..12 /\ ms.y \in 1..9999

\* variant of get_fiscal_quarter that labels every month with its calendar year
get_fiscal_quarter_calendar_year(ms) ==
    IF ~StrptimeOk(ms) THEN Unknown
    ELSE IF ms.m \in {8, 9, 10} THEN QuarterLabel(1, ms.y)
    ELSE IF ms.m \in {11, 12, 1} THEN QuarterLabel(2, ms.y)
    ELSE IF ms.m \in {2, 3, 4} THEN QuarterLabel(3, ms.y)
    ELSE QuarterLabel(4, ms.y)

get_fiscal_quarter(ms) ==
    IF ~StrptimeOk(ms) THEN Unknown
    ELSE LET month == ms.m
             year == ms.y
             fiscal_year == IF month >= 8 THEN year + 1 ELSE year
         IN  IF month \in {8, 9, 10} THEN QuarterLabel(1, fiscal_year)
             ELSE IF month \in {11, 12} THEN QuarterLabel(2, fiscal_year)
             ELSE IF month \in {1} THEN QuarterLabel(2, fiscal_year)
             ELSE IF month \in {2, 3, 4} THEN QuarterLabel(3, fiscal_year)
             ELSE QuarterLabel(4, fiscal_year)

\* variant of get_quarter_months that puts all of Q2 in the previous calendar year
get_quarter_months_same_year(qs) ==
    IF qs = Unknown THEN <<>>
    ELSE LET quarter_num == qs.q
             fiscal_year == qs.fy
         IN  IF quarter_num = 1
             THEN <<Month(fiscal_year - 1, 8), Month(fiscal_year - 1, 9),
                    Month(fiscal_year - 1, 10)>>
             ELSE IF quarter_num = 2
             THEN <<Month(fiscal_year - 1, 11), Month(fiscal_year - 1, 12),
                    Month(fiscal_year - 1, 1)>>
             ELSE IF quarter_num = 3
             THEN <<Month(fiscal_year, 2), Month(fiscal_year, 3), Month(fiscal_year, 4)>>
             ELSE <<Month(fiscal_year, 5), Month(fiscal_year, 6), Month(fiscal_year, 7)>>

\* "Unknown" has no second word: parts[1] raises and the except returns []
get_quarter_months(qs) ==
    IF qs = Unknown THEN <<>>
    ELSE LET quarter_num == qs.q
             fiscal_year == qs.fy
         IN  IF quarter_num = 1
             THEN <<Month(fiscal_year - 1, 8), Month(fiscal_year - 1, 9),
                    Month(fiscal_year - 1, 10)>>
             ELSE IF quarter_num = 2
             THEN <<Month(fiscal_year - 1, 11), Month(fiscal_year - 1, 12),
                    Month(fiscal_year, 1)>>
             ELSE IF quarter_num = 3
             THEN <<Month(fiscal_year, 2), Month(fiscal_year, 3), Month(fiscal_year, 4)>>
             ELSE <<Month(fiscal_year, 5), Month(fiscal_year, 6), Month(fiscal_year, 7)>>

\* variant of QuarterKeyLt that compares the labels as text
QuarterKeyLt_lexicographic(a, b) == a.q < b.q \/ (a.q = b.q /\ a.fy < b.fy)

\* key of sorted(): (int(x.split()[1].replace('FY','')), int(x.split()[0][1]))
QuarterKeyLt(a, b) == a.fy < b.fy \/ (a.fy = b.fy /\ a.q < b.q)

RECURSIVE InsertSorted(_, _)
InsertSorted(x, s) ==
    IF s = <<>> THEN <<x>>
    ELSE IF QuarterKeyLt(x, Head(s)) THEN <<x>> \o s
    ELSE <<Head(s)>> \o InsertSorted(x, Tail(s))

\* a stable sort by the key
RECURSIVE SortedByKey(_)
SortedByKey(quarters) ==
    IF quarters = <<>> THEN <<>>
    ELSE LET n == Len(quarters)
         IN  InsertSorted(quarters[n], SortedByKey(SubSeq(quarters, 1, n - 1)))

\* "Unknown".split()[1] in the key raises IndexError, which sorted() lets through
IndexError == [raised |-> "IndexError"]

SortRaises(quarters) == \E i \in DOMAIN quarters : quarters[i] = Unknown

sort_quarters_chronologically(quarters) ==
    IF SortRaises(quarters) THEN IndexError ELSE SortedByKey(quarters)

\* quarters_dict: quarter -> list of months, in insertion order of the quarters
RECURSIVE GroupByQuarter(_, _)
GroupByQuarter(months, acc) ==
    IF months = <<>> THEN acc
    ELSE LET month == Head(months)
             quarter == get_fiscal_quarter(month)
             hit == {i \in DOMAIN acc : acc[i].quarter = quarter}
         IN  GroupByQuarter(Tail(months),
                 IF hit = {}
                 THEN Append(acc, [quarter |-> quarter, months |-> <<month>>])
                 ELSE [i \in DOMAIN acc |->
                          IF i \in hit
                          THEN [acc[i] EXCEPT !.months = Append(@, month)]
                          ELSE acc[i]])

QuartersDict(now) == GroupByQuarter(WindowMonths(now), <<>>)
QuarterKeys(qd) == [i \in DOMAIN qd |-> qd[i].quarter]
QuarterMonthsOf(qd, quarter) ==
    (CHOOSE e \in Range(qd) : e.quarter = quarter).months

(***************************************************************************)
(* Data frames                                                             *)
(*   roster  : [columns |-> set of PTO_ month keys, rows |-> sequence of   *)
(*             [Engineer_Name, Annual_PTO_Days, PTO]]                      *)
(*   ledger  : sequence of [Engineer_Name, Program, Feature, Month,        *)
(*             Allocation]                                                 *)
(***************************************************************************)
\* str.strip() on the names the model uses
StrStrip(s) ==
    CASE s = " " -> ""
      [] s = "Jane Doe " -> "Jane Doe"
      [] s = "Ann Lee " -> "Ann Lee"
      [] s = "Jane Roe " -> "Jane Roe"
      [] OTHER -> s

EngineerRow(name, annual, pto) ==
    [Engineer_Name |-> name, Annual_PTO_Days |-> annual, PTO |-> pto]

Assignment(name, feature, month, allocation) ==
    [Engineer_Name |-> name, Program |-> "Default Program", Feature |-> feature,
     Month |-> month, Allocation |-> allocation]

AssignmentIn(name, program, feature, month, allocation) ==
    [Engineer_Name |-> name, Program |-> program, Feature |-> feature,
     Month |-> month, Allocation |-> allocation]

\* all_engineers: the stripped names of the roster that are not empty
ValidName(name) == StrStrip(name) # "" /\ name # "nan"

RECURSIVE AllEngineers(_)
AllEngineers(rows) ==
    IF rows = <<>> THEN <<>>
    ELSE IF ValidName(Head(rows).Engineer_Name)
         THEN <<StrStrip(Head(rows).Engineer_Name)>> \o AllEngineers(Tail(rows))
         ELSE AllEngineers(Tail(rows))

\* engineers_df[engineers_df['Engineer Name'].astype(str) == engineer_str]
EngineerMatches(df, engineer_str) ==
    SelectSeq(df.rows, LAMBDA r : r.Engineer_Name = engineer_str)

\* variant of PtoDays that falls back to a twelfth of the annual total
PtoDays_annual_fallback(df, engineer_str, month) ==
    LET engineer_matches == EngineerMatches(df, engineer_str)
    IN  IF engineer_matches = <<>> THEN 0
        ELSE IF month \in df.columns THEN engineer_matches[1].PTO[month]
        ELSE engineer_matches[1].Annual_PTO_Days \div 12

\* pto_days of one engineer and month, in half days
PtoDays(df, engineer_str, month) ==
    LET engineer_matches == EngineerMatches(df, engineer_str)
    IN  IF engineer_matches # <<>> /\ month \in df.columns
        THEN engineer_matches[1].PTO[month]
        ELSE 0

working_days_in_month == 22

\* effective_working_days = max(0, working_days_in_month - pto_days), in half days
EffectiveWorkingDays(pto_days) == Max(0, 2 * working_days_in_month - pto_days)

\* variant of SumPositive in which only the first record of the month counts
SumPositive_first_record(recs) ==
    IF recs = <<>> THEN 0 ELSE Max(0, Head(recs).Allocation)

RECURSIVE SumPositive(_)
SumPositive(recs) ==
    IF recs = <<>> THEN 0
    ELSE (IF Head(recs).Allocation > 0 THEN Head(recs).Allocation ELSE 0)
         + SumPositive(Tail(recs))

RECURSIVE SumAllocation(_)
SumAllocation(recs) ==
    IF recs = <<>> THEN 0 ELSE Head(recs).Allocation + SumAllocation(Tail(recs))

\* the ledger rows of one engineer and month
\* variant of EngineerMonthData that filters by month only
EngineerMonthData_any_engineer(monthly_df, engineer_str, month) ==
    SelectSeq(monthly_df, LAMBDA r : r.Month = month)

EngineerMonthData(monthly_df, engineer_str, month) ==
    SelectSeq(monthly_df,
              LAMBDA r : r.Month = month /\ r.Engineer_Name = engineer_str)

\* month_total_allocation of the aggregator: only allocations > 0 are added
MonthTotalAllocation(monthly_df, engineer_str, month) ==
    SumPositive(EngineerMonthData(monthly_df, engineer_str, month))

(***************************************************************************)
(* generate_monthly_utilization_chart                                      *)
(***************************************************************************)
\* avg_working_days / 22 if avg_working_days > 0 else 1
AvgWorkingDaysRatio(total_working_days, n_months) ==
    IF total_working_days > 0
    THEN Frac(total_working_days, 2 * working_days_in_month * n_months)
    ELSE Frac(1, 1)

\* variant of EffectiveAllocation of the superseded policy: allocation / ratio
EffectiveAllocation_pto_scaled(avg_allocation, avg_working_days_ratio) ==
    Frac(avg_allocation.n * avg_working_days_ratio.d,
         avg_allocation.d * avg_working_days_ratio.n)

\* effective_allocation = avg_allocation
EffectiveAllocation(avg_allocation, avg_working_days_ratio) == avg_allocation

Hundred(x) == Frac(100 * x.n, x.d)

\* variant of StatusOf whose second threshold is strict
StatusOf_strict(effective_allocation) ==
    IF FracLt(Frac(100, 1), effective_allocation) THEN "Over-allocated"
    ELSE IF FracLt(Frac(85, 1), effective_allocation) THEN "Fully Occupied"
    ELSE "Available"

\* 'Over-allocated' if > 100 else 'Fully Occupied' if >= 85 else 'Available'
StatusOf(effective_allocation) ==
    IF FracLt(Frac(100, 1), effective_allocation) THEN "Over-allocated"
    ELSE IF FracLe(Frac(85, 1), effective_allocation) THEN "Fully Occupied"
    ELSE "Available"

\* the loop body for one (quarter, engineer): its local variables
QuarterLocals(monthly_df, df, quarter_months, engineer) ==
    LET engineer_str == engineer
        n == Len(quarter_months)
        pto == [i \in 1..n |-> PtoDays(df, engineer_str, quarter_months[i])]
        wd == [i \in 1..n |-> EffectiveWorkingDays(pto[i])]
        alloc == [i \in 1..n |->
                    MonthTotalAllocation(monthly_df, engineer_str, quarter_months[i])]
        total_allocation == SumSeq(alloc)
        months_with_data == Cardinality({i \in 1..n : alloc[i] > 0})
        total_pto_days == SumSeq(pto)
        total_working_days == SumSeq(wd)
        avg_working_days_ratio == AvgWorkingDaysRatio(total_working_days, n)
        avg_allocation ==
            IF months_with_data > 0 THEN Frac(total_allocation, months_with_data)
            ELSE Frac(0, 1)
        effective_allocation ==
            IF months_with_data > 0
            THEN EffectiveAllocation(avg_allocation, avg_working_days_ratio)
            ELSE Frac(0, 1)
        effective_capacity == Hundred(avg_working_days_ratio)
        available_capacity ==
            IF months_with_data > 0
            THEN FracMax0(FracSub(effective_capacity, effective_allocation))
            ELSE effective_capacity
    IN  [n_months |-> n,
         avg_allocation |-> avg_allocation,
         effective_allocation |-> effective_allocation,
         available_capacity |-> available_capacity,
         avg_working_days_ratio |-> avg_working_days_ratio,
         total_working_days |-> total_working_days,
         total_pto_days |-> total_pto_days,
         months_with_data |-> months_with_data]

UtilizationRow(engineer, quarter, l) ==
    [Engineer |-> engineer,
     Quarter |-> quarter,
     Total_Allocation |-> l.avg_allocation,
     Effective_Allocation |-> l.effective_allocation,
     Available_Capacity |-> l.available_capacity,
     PTO_Impact |-> IF l.months_with_data > 0
                    THEN Hundred(FracSub(Frac(1, 1), l.avg_working_days_ratio))
                    ELSE Frac(0, 1),
     Working_Days |-> l.total_working_days,
     PTO_Days |-> l.total_pto_days,
     Status |-> StatusOf(l.effective_allocation),
     Months_with_Assignments |-> l.months_with_data]

DetailRow(engineer, quarter, l) ==
    [Engineer |-> engineer,
     Quarter |-> quarter,
     Total_Allocation_pct |-> Round1(l.avg_allocation),
     Effective_Allocation_pct |-> Round1(l.effective_allocation),
     Available_pct |-> Round1(l.available_capacity),
     PTO_Days |-> Round1(Frac(l.total_pto_days, 2 * l.n_months)),
     Working_Days |-> Round1(Frac(l.total_working_days, 2 * l.n_months)),
     Months_with_Data |-> l.months_with_data]

\* for quarter in sorted_quarters: for engineer in all_engineers: the locals of
\* each iteration, in the order of the iterations
RECURSIVE QuarterRows(_, _, _, _, _)
QuarterRows(monthly_df, df, qd, quarters, all_engineers) ==
    IF quarters = <<>> THEN <<>>
    ELSE LET quarter == Head(quarters)
             quarter_months == QuarterMonthsOf(qd, quarter)
         IN  [i \in DOMAIN all_engineers |->
                 [engineer |-> all_engineers[i],
                  quarter |-> quarter,
                  l |-> QuarterLocals(monthly_df, df, quarter_months, all_engineers[i])]]
             \o QuarterRows(monthly_df, df, qd, Tail(quarters), all_engineers)

ChartIterations(monthly_df, df, now) ==
    LET qd == QuartersDict(now)
    IN  QuarterRows(monthly_df, df, qd, sort_quarters_chronologically(QuarterKeys(qd)),
                    AllEngineers(df.rows))

\* utilization_data.append({...})
UtilizationData(iterations) ==
    [i \in DOMAIN iterations |->
        UtilizationRow(iterations[i].engineer, iterations[i].quarter, iterations[i].l)]

\* availability_details.append({...})
AvailabilityDetails(iterations) ==
    [i \in DOMAIN iterations |->
        DetailRow(iterations[i].engineer, iterations[i].quarter, iterations[i].l)]

\* the availability summary: one row per entry of all_engineers
SummaryRow(df, udata, engineer) ==
    LET engineer_data == SelectSeq(udata, LAMBDA r : r.Engineer = engineer)
        fully_occupied ==
            SelectSeq(engineer_data,
                      LAMBDA r : FracLe(Frac(85, 1), r.Effective_Allocation))
        over_allocated ==
            SelectSeq(engineer_data,
                      LAMBDA r : FracLt(Frac(100, 1), r.Effective_Allocation))
        engineer_matches == EngineerMatches(df, engineer)
    IN  [Engineer |-> engineer,
         Current_Quarter_Utilization |-> Round1(engineer_data[1].Effective_Allocation),
         Current_Quarter_Availability |-> Round1(engineer_data[1].Available_Capacity),
         Avg_Quarterly_Availability |->
            LET s == SumFrac([i \in DOMAIN engineer_data |->
                                 engineer_data[i].Available_Capacity])
            IN  Round1(Frac(s.n, s.d * Len(engineer_data))),
         Annual_PTO_Days |->
            IF engineer_matches # <<>> THEN engineer_matches[1].Annual_PTO_Days ELSE 0,
         Fully_Occupied_From |->
            IF fully_occupied # <<>> THEN <<fully_occupied[1].Quarter>> ELSE <<>>,
         Over_Allocated_In |->
            [i \in DOMAIN over_allocated |-> over_allocated[i].Quarter]]

AvailabilitySummary(df, udata) ==
    LET all_engineers == AllEngineers(df.rows)
    IN  [i \in DOMAIN all_engineers |-> SummaryRow(df, udata, all_engineers[i])]

\* the column labels of the two data frames the function returns: the keys of the
\* appended dicts when there are rows, the columns= lists of lines 350-353 and
\* 555-560 when there are none
DetailRowKeys ==
    {"Engineer", "Quarter", "Features", "Total Allocation %",
     "Effective Allocation %", "Available %", "PTO Days", "Working Days",
     "Months with Data"}

EmptyDetailsColumns ==
    {"Engineer", "Quarter", "Features", "Total Allocation %",
     "Effective Allocation %", "Available %", "PTO Days", "Working Days"}

SummaryRowKeys ==
    {"Engineer", "Current Quarter Utilization", "Current Quarter Availability",
     "Avg. Quarterly Availability", "Annual PTO Days", "Status"}

EmptySummaryColumns ==
    {"Engineer", "Current Quarter Utilization", "Current Quarter Availability",
     "Avg. Quarterly Availability", "Annual PTO Days", "Status"}

DetailsColumns(details) ==
    IF details = <<>> THEN EmptyDetailsColumns ELSE DetailRowKeys

SummaryColumns(summary) ==
    IF summary = <<>> THEN EmptySummaryColumns ELSE SummaryRowKeys

(***************************************************************************)
(* generate_quarterly_availability_chart                                   *)
(***************************************************************************)
\* the loop body for one (quarter, engineer)
MatrixRow(monthly_df, df, quarter, quarter_months, engineer) ==
    LET n == Len(quarter_months)
        data == [i \in 1..n |-> EngineerMonthData(monthly_df, engineer, quarter_months[i])]
        has_assignment == [i \in 1..n |-> data[i] # <<>>]
        pto == [i \in 1..n |-> PtoDays(df, engineer, quarter_months[i])]
        wd == [i \in 1..n |-> EffectiveWorkingDays(pto[i])]
        months_with_assignments == Cardinality({i \in 1..n : has_assignment[i]})
        total_allocation == SumSeq([i \in 1..n |-> SumAllocation(data[i])])
        total_effective_allocation == total_allocation
        total_working_days == SumSeq(wd)
        total_pto_days == SumSeq(pto)
        avg_effective_allocated ==
            IF months_with_assignments > 0
            THEN Frac(total_effective_allocation, months_with_assignments)
            ELSE Frac(0, 1)
        effective_capacity ==
            Frac(100 * total_working_days, 2 * working_days_in_month * n)
        avg_available ==
            IF months_with_assignments > 0 \/ total_pto_days > 0
            THEN FracMin(Frac(100, 1),
                         FracMax0(FracSub(effective_capacity, avg_effective_allocated)))
            ELSE FracMin(Frac(100, 1),
                         FracMax0(FracSub(Frac(100, 1), avg_effective_allocated)))
    IN  [Engineer |-> engineer,
         Quarter |-> quarter,
         Avg_Available_pct |-> Round1(avg_available),
         Avg_Allocated_pct |-> Round1(avg_effective_allocated),
         Total_PTO_Days |-> Round1(Frac(total_pto_days, 2))]

\* for quarter, quarter_months in quarters.items(): for engineer in all_engineers
RECURSIVE MatrixRows(_, _, _, _)
MatrixRows(monthly_df, df, qd, all_engineers) ==
    IF qd = <<>> THEN <<>>
    ELSE [i \in DOMAIN all_engineers |->
             MatrixRow(monthly_df, df, Head(qd).quarter, Head(qd).months,
                       all_engineers[i])]
         \o MatrixRows(monthly_df, df, Tail(qd), all_engineers)

QuarterlyData(monthly_df, df, now) ==
    MatrixRows(monthly_df, df, QuartersDict(now), AllEngineers(df.rows))

(***************************************************************************)
(* generate_team_utilization_summary                                       *)
(***************************************************************************)
\* the categories of lines 168-174
Categorize(avg_effective_allocation) ==
    IF FracLt(Frac(100, 1), avg_effective_allocation) THEN "Over-allocated"
    ELSE IF FracLe(Frac(85, 1), avg_effective_allocation) THEN "Fully Occupied"
    ELSE "Available"

\* working_days_ratio of one engineer and month: 1 unless the PTO column exists
WorkingDaysRatio(df, engineer, month) ==
    IF EngineerMatches(df, engineer) # <<>> /\ month \in df.columns
    THEN Frac(EffectiveWorkingDays(PtoDays(df, engineer, month)),
              2 * working_days_in_month)
    ELSE Frac(1, 1)

\* the loop body for one (quarter, engineer)
EngineerMetric(monthly_df, df, quarter, quarter_months, engineer) ==
    LET n == Len(quarter_months)
        data == [i \in 1..n |-> EngineerMonthData(monthly_df, engineer, quarter_months[i])]
        months_with_assignments == Cardinality({i \in 1..n : data[i] # <<>>})
        engineer_allocation == SumSeq([i \in 1..n |-> SumAllocation(data[i])])
        engineer_effective_allocation ==
            SumFrac([i \in 1..n |->
                LET r == WorkingDaysRatio(df, engineer, quarter_months[i])
                IN  Frac(SumAllocation(data[i]) * r.n, r.d)])
        avg_allocation ==
            IF months_with_assignments > 0
            THEN Frac(engineer_allocation, months_with_assignments)
            ELSE Frac(0, 1)
        avg_effective_allocation ==
            IF months_with_assignments > 0
            THEN Frac(engineer_effective_allocation.n,
                      engineer_effective_allocation.d * months_with_assignments)
            ELSE Frac(0, 1)
    IN  [Quarter |-> quarter,
         Engineer |-> engineer,
         avg_allocation |-> avg_allocation,
         avg_effective_allocation |-> avg_effective_allocation,
         category |-> Categorize(avg_effective_allocation)]

RECURSIVE EngineerMetricRows(_, _, _, _)
EngineerMetricRows(monthly_df, df, qd, all_engineers) ==
    IF qd = <<>> THEN <<>>
    ELSE [i \in DOMAIN all_engineers |->
             EngineerMetric(monthly_df, df, Head(qd).quarter, Head(qd).months,
                            all_engineers[i])]
         \o EngineerMetricRows(monthly_df, df, Tail(qd), all_engineers)

\* None when there is no engineer or the ledger is empty
EngineerMetrics(monthly_df, df, now) ==
    IF AllEngineers(df.rows) = <<>> \/ monthly_df = <<>> THEN <<>>
    ELSE EngineerMetricRows(monthly_df, df, QuartersDict(now), AllEngineers(df.rows))

QuarterMetric(metrics, quarter, team_size) ==
    LET mine == SelectSeq(metrics, LAMBDA r : r.Quarter = quarter)
        total_allocated == SumFrac([i \in DOMAIN mine |-> mine[i].avg_allocation])
        total_effective_allocated ==
            SumFrac([i \in DOMAIN mine |-> mine[i].avg_effective_allocation])
        Count(c) == Len(SelectSeq(mine, LAMBDA r : r.category = c))
    IN  [Quarter |-> quarter,
         Team_Size |-> team_size,
         Avg_Team_Utilization_pct |->
            Round1(Frac(total_allocated.n, total_allocated.d * team_size)),
         Avg_Effective_Utilization_pct |->
            Round1(Frac(total_effective_allocated.n,
                        total_effective_allocated.d * team_size)),
         Available_Engineers |-> Count("Available"),
         Fully_Occupied_Engineers |-> Count("Fully Occupied"),
         Over_allocated_Engineers |-> Count("Over-allocated")]

\* metrics_df, sorted by the chronological order of its quarters
QuarterlyMetrics(metrics, df, now) ==
    LET quarters == sort_quarters_chronologically(QuarterKeys(QuartersDict(now)))
    IN  IF metrics = <<>> THEN <<>>
        ELSE [i \in DOMAIN quarters |->
                 QuarterMetric(metrics, quarters[i], Len(AllEngineers(df.rows)))]

(***************************************************************************)
(* Bounds and input sets                                                   *)
(***************************************************************************)
MaxRecords == 2

\* the default roster of default_engineers()
DefaultNames == <<"Jane Doe", "John Smith">>

\* an ordinary mid-month date (12 distinct months, 4 quarters), a date whose
\* window starts in the last month of a quarter, and a first of a 31-day month
AggDates == {Date(2025, 8, 15), Date(2025, 10, 15), Date(2025, 3, 1)}

\* the months the generated ledgers and PTO entries use: the first window entries
InputMonths(now) == {WindowMonths(now)[i] : i \in 1..3}
WindowColumns(now) == Range(WindowMonths(now))

AllocValues == {0, 50, 85}
PtoValues == {22, 44}

ZeroPto(columns) == [c \in columns |-> 0]

Idle ==
    /\ aggrid_available = TRUE
    /\ engineer_file = NoValue
    /\ full_engineers_data = NoValue
    /\ local_engineers_df = NoValue
    /\ ops = 0
    /\ utilization_data = <<>>
    /\ availability_details = <<>>
    /\ availability_summary = <<>>
    /\ quarterly_data = <<>>
    /\ engineer_metrics = <<>>
    /\ quarterly_metrics = <<>>
    /\ monthly_assignments_file = NoValue
    /\ quarter_month_list = NoValue
    /\ sorted_quarters = NoValue
    /\ program_quarterly = NoValue
    /\ fig_program_trend = NoValue
    /\ fig_feature_trend = NoValue
    /\ exception = "None"

(***************************************************************************)
(* SpecFiscal: get_fiscal_quarter applied to every month of a range        *)
(***************************************************************************)
FiscalMonths == {Month(y, m) : y \in 2023..2027, m \in 1..12}

InitFiscal ==
    /\ Idle
    /\ all_quarters = NoValue
    /\ current_date = Date(2025, 8, 15)
    /\ engineers_df = NoValue
    /\ monthly_assignments_df = <<>>
    /\ pc = "fiscal"
    /\ month_str \in FiscalMonths
    /\ quarter_str = NoValue

CallGetFiscalQuarter ==
    /\ pc = "fiscal"
    /\ quarter_str = NoValue
    /\ quarter_str' = get_fiscal_quarter(month_str)
    /\ UNCHANGED projection_vars
    /\ UNCHANGED <<current_date, aggrid_available, engineer_file, engineers_df,
                   full_engineers_data, monthly_assignments_df, local_engineers_df,
                   ops, pc, utilization_data, availability_details,
                   availability_summary, quarterly_data, engineer_metrics,
                   quarterly_metrics, month_str>>

NextFiscal == CallGetFiscalQuarter

SpecFiscal == InitFiscal /\ [][NextFiscal]_vars

(***************************************************************************)
(* SpecAgg: the three quarterly computations of one render, applied to a   *)
(* roster and a ledger drawn from bounded sets                             *)
(***************************************************************************)
AggRosters(now) ==
    LET cols == WindowColumns(now)
        Ptos == {ZeroPto(cols)} \cup
                {[ZeroPto(cols) EXCEPT ![m] = v] : m \in InputMonths(now), v \in PtoValues}
    IN  {[columns |-> cols,
          rows |-> <<EngineerRow(DefaultNames[1], SumOver(p, cols), p),
                     EngineerRow(DefaultNames[2], 0, ZeroPto(cols))>>] : p \in Ptos}

AggRecords(now) ==
    {Assignment(DefaultNames[1], "Feature A", m, a) :
        m \in InputMonths(now), a \in AllocValues}

AggLedgers(now) == UNION {[1..n -> AggRecords(now)] : n \in 0..MaxRecords}

InitAgg ==
    /\ Idle
    /\ all_quarters = NoValue
    /\ current_date \in AggDates
    /\ engineers_df \in AggRosters(current_date)
    /\ monthly_assignments_df \in AggLedgers(current_date)
    /\ pc = "start"
    /\ month_str = NoValue
    /\ quarter_str = NoValue

\* line 2113
RunUtilizationChart ==
    /\ pc = "start"
    /\ \E iterations \in
              {ChartIterations(monthly_assignments_df, engineers_df, current_date)} :
          /\ utilization_data' = UtilizationData(iterations)
          /\ availability_details' = AvailabilityDetails(iterations)
    /\ availability_summary' = AvailabilitySummary(engineers_df, utilization_data')
    /\ pc' = "chart"
    /\ UNCHANGED projection_vars
    /\ UNCHANGED <<current_date, aggrid_available, engineer_file, engineers_df,
                   full_engineers_data, monthly_assignments_df, local_engineers_df,
                   ops, quarterly_data, engineer_metrics, quarterly_metrics,
                   month_str, quarter_str>>

\* line 2356
RunQuarterlyChart ==
    /\ pc = "chart"
    /\ quarterly_data' =
          QuarterlyData(monthly_assignments_df, engineers_df, current_date)
    /\ pc' = "team"
    /\ UNCHANGED projection_vars
    /\ UNCHANGED <<current_date, aggrid_available, engineer_file, engineers_df,
                   full_engineers_data, monthly_assignments_df, local_engineers_df,
                   ops, utilization_data, availability_details,
                   availability_summary, engineer_metrics, quarterly_metrics,
                   month_str, quarter_str>>

\* line 2555
RunTeamSummary ==
    /\ pc = "team"
    /\ engineer_metrics' =
          EngineerMetrics(monthly_assignments_df, engineers_df, current_date)
    /\ quarterly_metrics' =
          QuarterlyMetrics(engineer_metrics', engineers_df, current_date)
    /\ pc' = "done"
    /\ UNCHANGED projection_vars
    /\ UNCHANGED <<current_date, aggrid_available, engineer_file, engineers_df,
                   full_engineers_data, monthly_assignments_df, local_engineers_df,
                   ops, utilization_data, availability_details,
                   availability_summary, quarterly_data, month_str, quarter_str>>

NextAgg == RunUtilizationChart \/ RunQuarterlyChart \/ RunTeamSummary

SpecAgg == InitAgg /\ [][NextAgg]_vars

(***************************************************************************)
(* SpecLedger: the aggregator called twice on ledgers whose records name   *)
(* an engineer of the roster or somebody else, for one feature or another  *)
(***************************************************************************)
LedgerRoster(now) ==
    LET cols == WindowColumns(now)
    IN  [columns |-> cols,
         rows |-> <<EngineerRow(DefaultNames[1], 0, ZeroPto(cols)),
                    EngineerRow(DefaultNames[2], 0, ZeroPto(cols))>>]

LedgerRecords(now) ==
    {Assignment(name, feature, m, a) :
        name \in {DefaultNames[1], "Ann Lee"},
        feature \in {"Feature A", "Feature B"},
        m \in {WindowMonths(now)[1], WindowMonths(now)[2]},
        a \in {50, 85}}

LedgerLedgers(now) == UNION {[1..n -> LedgerRecords(now)] : n \in 0..MaxRecords}

InitLedger ==
    /\ Idle
    /\ all_quarters = NoValue
    /\ current_date \in AggDates
    /\ engineers_df = LedgerRoster(current_date)
    /\ monthly_assignments_df \in LedgerLedgers(current_date)
    /\ pc = "start"
    /\ month_str = NoValue
    /\ quarter_str = NoValue

\* variant of FrameAfterCall in which the call keeps only the rows it has used
FrameAfterCall_consumed(df) == SelectSeq(df, LAMBDA r : FALSE)

\* the ledger when the function returns: the function filters copies of it
\* (lines 397-399, 420) and assigns to none of its cells
FrameAfterCall(df) == df

\* one call of generate_monthly_utilization_chart
AggregatorCall(next_pc) ==
    /\ \E iterations \in
              {ChartIterations(monthly_assignments_df, engineers_df, current_date)} :
          /\ utilization_data' = UtilizationData(iterations)
          /\ availability_details' = AvailabilityDetails(iterations)
    /\ availability_summary' = AvailabilitySummary(engineers_df, utilization_data')
    /\ monthly_assignments_df' = FrameAfterCall(monthly_assignments_df)
    /\ pc' = next_pc
    /\ UNCHANGED projection_vars
    /\ UNCHANGED <<current_date, aggrid_available, engineer_file, engineers_df,
                   full_engineers_data, local_engineers_df, ops, quarterly_data,
                   engineer_metrics, quarterly_metrics, month_str, quarter_str>>

FirstCall == pc = "start" /\ AggregatorCall("chart")

SecondCall == pc = "chart" /\ AggregatorCall("again")

NextLedger == FirstCall \/ SecondCall

SpecLedger == InitLedger /\ [][NextLedger]_vars

(***************************************************************************)
(* SpecLookup: the aggregator applied to rosters in which the PTO_ column  *)
(* of a window month may be missing (a roster kept from an earlier month), *)
(* while the engineer has PTO in other months                              *)
(***************************************************************************)
LookupRosters(now) ==
    LET cols == WindowColumns(now)
        m1 == WindowMonths(now)[1]
        m2 == WindowMonths(now)[2]
        m3 == WindowMonths(now)[3]
        Pto(columns, v) ==
            [c \in columns |-> IF c = m3 THEN 24 ELSE IF c \in {m1, m2} THEN v ELSE 0]
    IN  {[columns |-> columns,
          rows |-> <<EngineerRow(DefaultNames[1],
                                 SumOver(Pto(columns, v), columns), Pto(columns, v)),
                     EngineerRow(DefaultNames[2], 0, ZeroPto(columns))>>] :
            columns \in {cols, cols \ {m1}, cols \ {m2}}, v \in {0, 22}}

LookupLedgers(now) == UNION {[1..n -> AggRecords(now)] : n \in 0..1}

InitLookup ==
    /\ Idle
    /\ all_quarters = NoValue
    /\ current_date \in AggDates
    /\ engineers_df \in LookupRosters(current_date)
    /\ monthly_assignments_df \in LookupLedgers(current_date)
    /\ pc = "start"
    /\ month_str = NoValue
    /\ quarter_str = NoValue

NextLookup == RunUtilizationChart

SpecLookup == InitLookup /\ [][NextLookup]_vars

(***************************************************************************)
(* SpecEmpty: the aggregator applied to rosters and ledgers that may be    *)
(* empty                                                                   *)
(***************************************************************************)
EmptyRoster(now) == [columns |-> WindowColumns(now), rows |-> <<>>]

InitEmpty ==
    /\ Idle
    /\ all_quarters = NoValue
    /\ current_date \in AggDates
    /\ engineers_df \in {EmptyRoster(current_date)} \cup AggRosters(current_date)
    /\ monthly_assignments_df \in LookupLedgers(current_date)
    /\ pc = "start"
    /\ month_str = NoValue
    /\ quarter_str = NoValue

NextEmpty == RunUtilizationChart

SpecEmpty == InitEmpty /\ [][NextEmpty]_vars

(***************************************************************************)
(* SpecCalendar: get_fiscal_quarter applied to months and to inputs that   *)
(* are not months, and get_quarter_months applied to its result or to a    *)
(* quarter label                                                           *)
(***************************************************************************)
\* "2025-13", "2025-00", "0000-05", "Unknown" and ""
MalformedInputs ==
    {Month(2025, 13), Month(2025, 0), Month(0, 5), [text |-> "Unknown"], [text |-> ""]}

FiscalYears == 2024..2028
QuarterLabels == {QuarterLabel(q, fy) : q \in 1..4, fy \in FiscalYears}

InitCalendar ==
    /\ Idle
    /\ all_quarters = NoValue
    /\ current_date = Date(2025, 8, 15)
    /\ engineers_df = NoValue
    /\ monthly_assignments_df = <<>>
    /\ pc = "fiscal"
    /\ \/ month_str \in FiscalMonths \cup MalformedInputs /\ quarter_str = NoValue
       \/ month_str = NoValue /\ quarter_str \in QuarterLabels

CallGetQuarterMonths ==
    /\ pc = "fiscal"
    /\ quarter_str # NoValue
    /\ quarter_month_list' = get_quarter_months(quarter_str)
    /\ pc' = "months"
    /\ UNCHANGED <<current_date, aggrid_available, engineer_file, engineers_df,
                   full_engineers_data, monthly_assignments_df, local_engineers_df,
                   ops, utilization_data, availability_details,
                   availability_summary, quarterly_data, engineer_metrics,
                   quarterly_metrics, month_str, quarter_str, all_quarters,
                   sorted_quarters, program_quarterly, fig_program_trend,
                   fig_feature_trend, exception, monthly_assignments_file>>

NextCalendar == CallGetFiscalQuarter \/ CallGetQuarterMonths

SpecCalendar == InitCalendar /\ [][NextCalendar]_vars

(***************************************************************************)
(* SpecSort: sort_quarters_chronologically applied to lists of labels      *)
(***************************************************************************)
MaxQuarters == 3

SortLabels ==
    {QuarterLabel(3, 2025), QuarterLabel(1, 2026), QuarterLabel(4, 2024),
     QuarterLabel(1, 2025)}

InitSort ==
    /\ Idle
    /\ all_quarters \in UNION {[1..n -> SortLabels] : n \in 0..MaxQuarters}
    /\ current_date = Date(2025, 8, 15)
    /\ engineers_df = NoValue
    /\ monthly_assignments_df = <<>>
    /\ pc = "sort"
    /\ month_str = NoValue
    /\ quarter_str = NoValue

CallSortQuarters ==
    /\ pc = "sort"
    /\ sorted_quarters' = sort_quarters_chronologically(all_quarters)
    /\ pc' = "sorted"
    /\ UNCHANGED <<current_date, aggrid_available, engineer_file, engineers_df,
                   full_engineers_data, monthly_assignments_df, local_engineers_df,
                   ops, utilization_data, availability_details,
                   availability_summary, quarterly_data, engineer_metrics,
                   quarterly_metrics, month_str, quarter_str, quarter_month_list,
                   all_quarters, program_quarterly, fig_program_trend,
                   fig_feature_trend, exception, monthly_assignments_file>>

NextSort == CallSortQuarters

SpecSort == InitSort /\ [][NextSort]_vars

(***************************************************************************)
(* SpecCoerce: the two files as read_csv delivers them, with cells that    *)
(* are numbers or text, the numeric coercion of the script and the three   *)
(* aggregations of the coerced frames                                      *)
(***************************************************************************)
Num(n) == [num |-> n]
Text(t) == [text |-> t]

\* pd.to_numeric(cell, errors='coerce') followed by fillna(0)
to_numeric(cell) == IF "num" \in DOMAIN cell THEN cell.num ELSE 0

\* variant of LoadedLedger that drops the records that are not numeric
LoadedLedger_dropna(file) ==
    LET kept == SelectSeq(file, LAMBDA r : "num" \in DOMAIN r.Allocation)
    IN  [i \in DOMAIN kept |-> [kept[i] EXCEPT !.Allocation = to_numeric(@)]]

\* lines 1107-1108: loaded_monthly_df['Allocation %'] made numeric
LoadedLedger(file) ==
    [i \in DOMAIN file |-> [file[i] EXCEPT !.Allocation = to_numeric(@)]]

\* lines 1174-1180: every PTO_ column made numeric, Annual PTO Days their sum
NumericPto(df) ==
    [columns |-> df.columns,
     rows |-> [i \in DOMAIN df.rows |->
                  LET pto == [c \in df.columns |-> to_numeric(df.rows[i].PTO[c])]
                  IN  EngineerRow(df.rows[i].Engineer_Name,
                                  SumOver(pto, df.columns), pto)]]

CoerceDate == Date(2025, 8, 15)
CoerceMonth == WindowMonths(CoerceDate)[1]

CoerceCells == {Num(50), Num(85), Text("abc")}
CoercePtoCells == {Num(0), Num(22), Text("n/a")}

CoerceFiles ==
    LET cols == WindowColumns(CoerceDate)
        Cells(c) == [m \in cols |-> IF m = CoerceMonth THEN c ELSE Num(0)]
    IN  {[columns |-> cols,
          rows |-> <<EngineerRow(DefaultNames[1], 0, Cells(c)),
                     EngineerRow(DefaultNames[2], 0, Cells(Num(22)))>>] :
            c \in CoercePtoCells}

CoerceRecords ==
    {AssignmentIn(name, "Default Program", "Feature A", CoerceMonth, c) :
        name \in {DefaultNames[1], DefaultNames[2]}, c \in CoerceCells}

CoerceLedgerFiles == UNION {[1..n -> CoerceRecords] : n \in 0..MaxRecords}

InitCoerce ==
    /\ aggrid_available = TRUE
    /\ full_engineers_data = NoValue
    /\ local_engineers_df = NoValue
    /\ ops = 0
    /\ utilization_data = <<>>
    /\ availability_details = <<>>
    /\ availability_summary = <<>>
    /\ quarterly_data = <<>>
    /\ engineer_metrics = <<>>
    /\ quarterly_metrics = <<>>
    /\ quarter_month_list = NoValue
    /\ all_quarters = NoValue
    /\ sorted_quarters = NoValue
    /\ program_quarterly = NoValue
    /\ fig_program_trend = NoValue
    /\ fig_feature_trend = NoValue
    /\ exception = "None"
    /\ current_date = CoerceDate
    /\ engineer_file \in CoerceFiles
    /\ monthly_assignments_file \in CoerceLedgerFiles
    /\ engineers_df = NoValue
    /\ monthly_assignments_df = <<>>
    /\ pc = "load"
    /\ month_str = NoValue
    /\ quarter_str = NoValue

\* lines 1102-1116 and 1174-1181: both frames enter the session with numeric cells
LoadNumeric ==
    /\ pc = "load"
    /\ monthly_assignments_df' = LoadedLedger(monthly_assignments_file)
    /\ engineers_df' = NumericPto(engineer_file)
    /\ pc' = "start"
    /\ UNCHANGED <<current_date, aggrid_available, engineer_file,
                   full_engineers_data, local_engineers_df, ops, utilization_data,
                   availability_details, availability_summary, quarterly_data,
                   engineer_metrics, quarterly_metrics, month_str, quarter_str,
                   projection_vars>>

NextCoerce == LoadNumeric \/ RunUtilizationChart \/ RunQuarterlyChart \/ RunTeamSummary

SpecCoerce == InitCoerce /\ [][NextCoerce]_vars

(***************************************************************************)
(* Projections of the ledger by quarter and a second column                *)
(***************************************************************************)
\* df[column].unique(): the values in order of first appearance
RECURSIVE Unique(_)
Unique(s) ==
    IF s = <<>> THEN <<>>
    ELSE LET n == Len(s)
             front == Unique(SubSeq(s, 1, n - 1))
         IN  IF \E i \in DOMAIN front : front[i] = s[n] THEN front
             ELSE Append(front, s[n])

\* monthly_df['Month'].apply(get_fiscal_quarter)
QuarterColumn(monthly_df) ==
    [i \in DOMAIN monthly_df |-> get_fiscal_quarter(monthly_df[i].Month)]

\* df.groupby(['Quarter', column])['Allocation %'].sum().reset_index(): one row
\* for each pair that occurs, with the sum of its records
GroupByQuarterAnd(monthly_df, column) ==
    LET quarter == QuarterColumn(monthly_df)
        keys == {<<quarter[i], monthly_df[i][column]>> : i \in DOMAIN monthly_df}
    IN  {[Quarter |-> k[1], Value |-> k[2],
          Allocation |->
             SumSeq([i \in DOMAIN monthly_df |->
                        IF quarter[i] = k[1] /\ monthly_df[i][column] = k[2]
                        THEN monthly_df[i].Allocation ELSE 0])] : k \in keys}

\* 'Program' in df.columns, for a frame that has rows
HasColumn(monthly_df, column) ==
    \A i \in DOMAIN monthly_df : column \in DOMAIN monthly_df[i]

(***************************************************************************)
(* generate_program_feature_quarterly_trends                               *)
(***************************************************************************)
RECURSIVE SetToSeq(_)
SetToSeq(S) ==
    IF S = {} THEN <<>>
    ELSE LET x == CHOOSE y \in S : TRUE IN <<x>> \o SetToSeq(S \ {x})

\* the feature names of the model in the order pandas sorts them
FeatureOrder ==
    <<"Feature A", "Feature B", "Feature C", "Feature D", "Feature E",
      "Feature F", "Feature G", "Feature H", "Feature I">>

FeaturePosition(f) == CHOOSE i \in DOMAIN FeatureOrder : FeatureOrder[i] = f

\* monthly_df[monthly_df['Month'].isin(months)]
FilterWindow(monthly_df, now) ==
    SelectSeq(monthly_df, LAMBDA r : r.Month \in Range(WindowMonths(now)))

months_per_quarter == 3
top_n == 8

\* groupby('Feature')['Allocation %'].sum().nlargest(8).index: the features with
\* fewer than 8 features before them, by total descending, then by name
TopFeatures(grouped) ==
    LET features == {r.Value : r \in grouped}
        total == [f \in features |->
                     SumOver([r \in grouped |-> r.Allocation],
                             {r \in grouped : r.Value = f})]
        Before(g, f) ==
            \/ total[g] > total[f]
            \/ total[g] = total[f] /\ FeaturePosition(g) < FeaturePosition(f)
    IN  {f \in features : Cardinality({g \in features : Before(g, f)}) < top_n}

\* variant of TrendFigure that leaves the sums undivided
TrendFigure_undivided(grouped) ==
    LET index == sort_quarters_chronologically(SetToSeq({r.Quarter : r \in grouped}))
        columns == {r.Value : r \in grouped}
    IN  [x |-> index,
         columns |-> columns,
         y |-> [p \in Range(index) \X columns |->
                   IF \E r \in grouped : r.Quarter = p[1] /\ r.Value = p[2]
                   THEN Frac((CHOOSE r \in grouped :
                                 r.Quarter = p[1] /\ r.Value = p[2]).Allocation, 1)
                   ELSE Frac(0, 1)]]

\* the pivot by quarter of the grouped rows divided by 3, missing pairs filled
\* with 0, its index sorted chronologically: the data of the line chart
TrendFigure(grouped) ==
    LET index == sort_quarters_chronologically(SetToSeq({r.Quarter : r \in grouped}))
        columns == {r.Value : r \in grouped}
    IN  [x |-> index,
         columns |-> columns,
         y |-> [p \in Range(index) \X columns |->
                   IF \E r \in grouped : r.Quarter = p[1] /\ r.Value = p[2]
                   THEN Frac((CHOOSE r \in grouped :
                                 r.Quarter = p[1] /\ r.Value = p[2]).Allocation,
                             months_per_quarter)
                   ELSE Frac(0, 1)]]

\* the value of the function: its two figures, or the exception that ended it
generate_program_feature_quarterly_trends(monthly_df, now) ==
    LET monthly_df_filtered == FilterWindow(monthly_df, now)
    IN  IF monthly_df = <<>> \/ monthly_df_filtered = <<>>
        THEN [program |-> NoValue, feature |-> NoValue, exception |-> "None"]
        ELSE IF ~HasColumn(monthly_df_filtered, "Feature")
        THEN [program |-> NoValue, feature |-> NoValue, exception |-> "KeyError"]
        ELSE LET feature_quarterly == GroupByQuarterAnd(monthly_df_filtered, "Feature")
                 top_features == TopFeatures(feature_quarterly)
             IN  [program |->
                     IF HasColumn(monthly_df_filtered, "Program")
                     THEN TrendFigure(GroupByQuarterAnd(monthly_df_filtered, "Program"))
                     ELSE NoValue,
                  feature |->
                     TrendFigure({r \in feature_quarterly : r.Value \in top_features}),
                  exception |-> "None"]

(***************************************************************************)
(* SpecTrends: the trend function applied to ledgers inside and outside    *)
(* the window, with and without the columns Program, Feature and Priority  *)
(***************************************************************************)
TrendRecord(program, feature, month, allocation) ==
    [Engineer_Name |-> DefaultNames[1], Program |-> program, Feature |-> feature,
     Month |-> month, Allocation |-> allocation, Priority |-> "Medium"]

\* a record of Feature A carries 50%, a record of Feature B 85%; the months are
\* two window months of different quarters and a month before the window
TrendRecords(now) ==
    {TrendRecord(program, f[1], m, f[2]) :
        program \in {"Default Program", "Platform"},
        f \in {<<"Feature A", 50>>, <<"Feature B", 85>>},
        m \in {WindowMonths(now)[1], WindowMonths(now)[4], Month(2024, 1)}}

TrendDates == {Date(2025, 8, 15), Date(2025, 3, 1)}

\* nine features in one month, with allocations 10, 20, .., 90
NineFeatures(now) ==
    [i \in 1..9 |->
        TrendRecord("Default Program", FeatureOrder[i], WindowMonths(now)[1], 10 * i)]

\* the frame without one of its columns
DropColumn(monthly_df, column) ==
    [i \in DOMAIN monthly_df |->
        [f \in DOMAIN monthly_df[i] \ {column} |-> monthly_df[i][f]]]

TrendLedgers(now) ==
    LET full == UNION {[1..n -> TrendRecords(now)] : n \in 0..MaxRecords}
    IN  full \cup {NineFeatures(now)}
        \cup {DropColumn(l, c) : l \in full, c \in {"Program", "Feature", "Priority"}}

InitTrends ==
    /\ Idle
    /\ all_quarters = NoValue
    /\ current_date \in TrendDates
    /\ engineers_df = NoValue
    /\ monthly_assignments_df \in TrendLedgers(current_date)
    /\ pc = "start"
    /\ month_str = NoValue
    /\ quarter_str = NoValue

\* line 2562
RunTrends ==
    /\ pc = "start"
    /\ pc' = "trends"
    /\ \E r \in {generate_program_feature_quarterly_trends(monthly_assignments_df,
                                                            current_date)} :
          /\ fig_program_trend' = r.program
          /\ fig_feature_trend' = r.feature
          /\ exception' = r.exception
    /\ UNCHANGED <<current_date, aggrid_available, engineer_file, engineers_df,
                   full_engineers_data, monthly_assignments_df, local_engineers_df,
                   ops, utilization_data, availability_details,
                   availability_summary, quarterly_data, engineer_metrics,
                   quarterly_metrics, month_str, quarter_str, quarter_month_list,
                   all_quarters, sorted_quarters, program_quarterly,
                   monthly_assignments_file>>

NextTrends == RunTrends

SpecTrends == InitTrends /\ [][NextTrends]_vars

(***************************************************************************)
(* SpecDistribution: the Quarterly Allocation Distribution tab of main on  *)
(* ledgers whose Month may be malformed ("2025-13")                        *)
(***************************************************************************)
MalformedMonth == Month(2025, 13)

DistributionRecords ==
    {AssignmentIn(DefaultNames[1], program, "Feature A", m, a) :
        program \in {"Default Program", "Platform"},
        m \in {Month(2025, 7), Month(2025, 8), MalformedMonth},
        a \in {50, 85}}

DistributionLedgers == UNION {[1..n -> DistributionRecords] : n \in 0..MaxRecords}

InitDistribution ==
    /\ Idle
    /\ all_quarters = NoValue
    /\ current_date = Date(2025, 8, 15)
    /\ engineers_df = NoValue
    /\ monthly_assignments_df \in DistributionLedgers
    /\ pc = "start"
    /\ month_str = NoValue
    /\ quarter_str = NoValue

\* lines 2368-2388: the tab body up to the grouping by program
QuarterlyAllocationDistribution ==
    /\ pc = "start"
    /\ pc' = "distribution"
    /\ IF monthly_assignments_df = <<>>
       THEN UNCHANGED <<all_quarters, sorted_quarters, program_quarterly, exception>>
       ELSE /\ all_quarters' = Unique(QuarterColumn(monthly_assignments_df))
            /\ IF SortRaises(all_quarters')
               THEN /\ exception' = "IndexError"
                    /\ UNCHANGED <<sorted_quarters, program_quarterly>>
               ELSE /\ sorted_quarters' = sort_quarters_chronologically(all_quarters')
                    /\ program_quarterly' =
                          IF HasColumn(monthly_assignments_df, "Program")
                          THEN GroupByQuarterAnd(monthly_assignments_df, "Program")
                          ELSE NoValue
                    /\ UNCHANGED exception
    /\ UNCHANGED <<current_date, aggrid_available, engineer_file, engineers_df,
                   full_engineers_data, monthly_assignments_df, local_engineers_df,
                   ops, utilization_data, availability_details,
                   availability_summary, quarterly_data, engineer_metrics,
                   quarterly_metrics, month_str, quarter_str, quarter_month_list,
                   fig_program_trend, fig_feature_trend, monthly_assignments_file>>

NextDistribution == QuarterlyAllocationDistribution

SpecDistribution == InitDistribution /\ [][NextDistribution]_vars

(***************************************************************************)
(* The script of main.  Every user interaction runs the script from the    *)
(* top; a handler that ends with st.rerun() is followed by a run without   *)
(* interaction.  A script state s is                                       *)
(*   [file    |-> engineers.csv (NoValue when absent),                     *)
(*    session |-> st.session_state.engineers_df,                           *)
(*    full    |-> st.session_state.full_engineers_data,                    *)
(*    local   |-> the script variable engineers_df]                        *)
(***************************************************************************)
MaxOps == 2

\* a date whose window has 12 distinct months
AppDates == {Date(2025, 8, 15)}

QuickAddNames == {"Ann Lee ", " "}
TableEditNames == {"Jane Roe ", ""}
\* values of the number inputs, in half days
PtoEditValues == {10, 44}
QuickFillValues == {10}
EditedWindowIndexes == {1}

\* df['Engineer Name'].fillna('').astype(str).str.strip()
StripNames(df) ==
    [df EXCEPT !.rows =
        [i \in DOMAIN df.rows |->
            [df.rows[i] EXCEPT !.Engineer_Name = StrStrip(df.rows[i].Engineer_Name)]]]

\* df[df['Engineer Name'] != '']
DropEmptyNames(df) ==
    [df EXCEPT !.rows = SelectSeq(df.rows, LAMBDA r : r.Engineer_Name # "")]

\* if month_key not in df.columns: df[month_key] = 0
AddPtoColumns(df, months) ==
    [columns |-> df.columns \cup months,
     rows |-> [i \in DOMAIN df.rows |->
                 [df.rows[i] EXCEPT !.PTO =
                     [c \in df.columns \cup months |->
                         IF c \in df.columns THEN df.rows[i].PTO[c] ELSE 0]]]]

\* if pto_columns: df['Annual PTO Days'] = df[pto_columns].sum(axis=1)
RecalculateAnnualPto(df) ==
    IF df.columns = {} THEN df
    ELSE [df EXCEPT !.rows =
             [i \in DOMAIN df.rows |->
                 [df.rows[i] EXCEPT !.Annual_PTO_Days =
                     SumOver(df.rows[i].PTO, df.columns)]]]

\* monthly_df['Month'].unique()
LedgerMonths(monthly_df) == {monthly_df[i].Month : i \in DOMAIN monthly_df}

default_engineers(now) ==
    [columns |-> WindowColumns(now),
     rows |-> <<EngineerRow(DefaultNames[1], 0, ZeroPto(WindowColumns(now))),
                EngineerRow(DefaultNames[2], 0, ZeroPto(WindowColumns(now)))>>]

\* lines 1027-1100: always load engineers.csv first
LoadEngineers(s, monthly_df, now) ==
    IF s.file # NoValue
    THEN LET stripped == StripNames(s.file)
             wanted == WindowColumns(now) \cup LedgerMonths(monthly_df)
             pto_columns_added == ~(wanted \subseteq stripped.columns)
             loaded_df == RecalculateAnnualPto(AddPtoColumns(stripped, wanted))
         IN  [s EXCEPT !.file = IF pto_columns_added THEN loaded_df ELSE s.file,
                       !.session = loaded_df]
    ELSE IF s.session = NoValue
         THEN [s EXCEPT !.session = default_engineers(now),
                        !.file = default_engineers(now)]
         ELSE s

\* lines 1126-1187: the same on the session roster
EnsureColumns(s, monthly_df, now) ==
    LET stripped == StripNames(s.session)
        wanted == WindowColumns(now) \cup LedgerMonths(monthly_df)
        pto_columns_added == ~(wanted \subseteq stripped.columns)
        df == RecalculateAnnualPto(AddPtoColumns(stripped, wanted))
    IN  [s EXCEPT !.session = df,
                  !.local = df,
                  !.file = IF pto_columns_added THEN df ELSE s.file]

ScriptTop(s, monthly_df, now) ==
    EnsureColumns(LoadEngineers(s, monthly_df, now), monthly_df, now)

\* lines 1272-1281 and, without st_aggrid, lines 1358-1366: the roster the
\* table, the PTO management and the render work on
PrepareTable(s, aggrid, now) ==
    LET session == RecalculateAnnualPto(s.session)
    IN  IF aggrid
        THEN [s EXCEPT !.session = session, !.local = session]
        ELSE LET full == IF s.full = NoValue THEN session ELSE s.full
             IN  IF full.rows = <<>>
                 THEN [s EXCEPT !.session = session,
                                !.full = default_engineers(now),
                                !.local = default_engineers(now)]
                 ELSE [s EXCEPT !.session = session, !.full = full, !.local = full]

\* a run of the script without interaction, up to the render
PlainRun(s, monthly_df, aggrid, now) ==
    PrepareTable(ScriptTop(s, monthly_df, now), aggrid, now)

\* lines 1204-1226
FixPtoHandler(s, monthly_df) ==
    LET df == RecalculateAnnualPto(AddPtoColumns(s.session, LedgerMonths(monthly_df)))
    IN  [s EXCEPT !.session = df, !.local = df, !.file = df]

\* lines 1243-1266
QuickAddHandler(s, new_name) ==
    LET new_row == EngineerRow(StrStrip(new_name), 0, ZeroPto(s.local.columns))
        df == [s.local EXCEPT !.rows = Append(s.local.rows, new_row)]
    IN  [s EXCEPT !.session = df, !.full = df, !.local = df, !.file = df]

\* the grid or the editor returns the table with the name of row i changed
EditedName(df, i, v) ==
    [df EXCEPT !.rows = [df.rows EXCEPT ![i] = [df.rows[i] EXCEPT !.Engineer_Name = v]]]

\* lines 1313-1333
AgGridEditHandler(s, i, v) ==
    LET df == DropEmptyNames(StripNames(EditedName(s.local, i, v)))
    IN  [s EXCEPT !.session = df, !.local = df, !.file = df]

\* lines 1384-1429: the roster is rebuilt from the rows of full_engineers_data
DataEditorHandler(s, i, v) ==
    LET new_full_data == RecalculateAnnualPto(EditedName(s.local, i, v))
        new_engineers_df == DropEmptyNames(StripNames(new_full_data))
    IN  [s EXCEPT !.session = new_engineers_df, !.full = new_engineers_df,
                  !.local = new_engineers_df, !.file = new_engineers_df]

\* lines 1446-1450
DeleteHandler(s, engineer_to_delete) ==
    LET df == [s.local EXCEPT !.rows =
                  SelectSeq(s.local.rows,
                            LAMBDA r : StrStrip(r.Engineer_Name)
                                           # StrStrip(engineer_to_delete))]
    IN  [s EXCEPT !.session = df, !.full = df, !.local = df, !.file = df]

\* engineer_matches.index[0]
EngineerIdx(df, selected) ==
    CHOOSE i \in DOMAIN df.rows :
        /\ df.rows[i].Engineer_Name = selected
        /\ \A j \in 1..(i - 1) : df.rows[j].Engineer_Name # selected

SetRowPto(df, idx, pto) ==
    [df EXCEPT !.rows = [df.rows EXCEPT ![idx] = [df.rows[idx] EXCEPT !.PTO = pto]]]

\* lines 1486-1518: one month input changed to new_value
PtoEditHandler(s, selected, month_key, new_value) ==
    LET idx == EngineerIdx(s.local, selected)
        edited == SetRowPto(s.local, idx,
                            [s.local.rows[idx].PTO EXCEPT ![month_key] = new_value])
        df == StripNames(RecalculateAnnualPto(edited))
    IN  [s EXCEPT !.session = df, !.local = df, !.file = df]

\* lines 1528-1535
ClearAllPtoHandler(s, selected) ==
    LET idx == EngineerIdx(s.local, selected)
        cleared == SetRowPto(s.local, idx, ZeroPto(s.local.columns))
        df == [cleared EXCEPT !.rows =
                  [cleared.rows EXCEPT ![idx] =
                      [cleared.rows[idx] EXCEPT !.Annual_PTO_Days = 0]]]
    IN  [s EXCEPT !.session = df, !.local = df, !.file = df]

\* lines 1541-1548
ApplyToAllHandler(s, selected, quick_fill) ==
    LET idx == EngineerIdx(s.local, selected)
        df == RecalculateAnnualPto(
                  SetRowPto(s.local, idx, [c \in s.local.columns |-> quick_fill]))
    IN  [s EXCEPT !.session = df, !.local = df, !.file = df]

\* lines 1554-1562
SaveHandler(s) ==
    LET df == DropEmptyNames(StripNames(s.session))
    IN  [s EXCEPT !.session = df, !.local = df, !.file = df]

\* lines 2052-2074: the window columns only, and nothing is written
RefreshHandler(s, now) ==
    LET loaded_df == RecalculateAnnualPto(
                         AddPtoColumns(StripNames(s.file), WindowColumns(now)))
    IN  [s EXCEPT !.session = loaded_df]

\* the engineers the PTO management offers
ValidEngineerNames(df) ==
    {n \in Range(AllEngineers(df.rows)) :
        \E i \in DOMAIN df.rows : df.rows[i].Engineer_Name = n}

Current == [file |-> engineer_file, session |-> engineers_df,
            full |-> full_engineers_data, local |-> local_engineers_df]

\* the end of a run: lines 2107-2113 with the script variable engineers_df,
\* lines 2356 and 2555 with the roster of the session
RenderLedger(s, monthly_df) ==
    /\ engineer_file' = s.file
    /\ engineers_df' = s.session
    /\ full_engineers_data' = s.full
    /\ local_engineers_df' = s.local
    /\ monthly_assignments_df' = monthly_df
    /\ \E iterations \in {ChartIterations(monthly_df, s.local, current_date)} :
          /\ utilization_data' = UtilizationData(iterations)
          /\ availability_details' = AvailabilityDetails(iterations)
    /\ availability_summary' = AvailabilitySummary(s.local, utilization_data')
    /\ quarterly_data' = QuarterlyData(monthly_df, s.session, current_date)
    /\ engineer_metrics' = EngineerMetrics(monthly_df, s.session, current_date)
    /\ quarterly_metrics' =
          QuarterlyMetrics(engineer_metrics', s.session, current_date)
    /\ UNCHANGED projection_vars
    /\ UNCHANGED <<current_date, aggrid_available, month_str, quarter_str>>

\* the end of a run that leaves the ledger as it is
Render(s) == RenderLedger(s, monthly_assignments_df)

\* a run in which the user has acted
Interaction ==
    /\ pc = "ready"
    /\ ops < MaxOps
    /\ ops' = ops + 1
    /\ pc' = "ready"

Top == ScriptTop(Current, monthly_assignments_df, current_date)
Table == PrepareTable(Top, aggrid_available, current_date)
Rerun(s) ==
    \E r \in {PlainRun(s, monthly_assignments_df, aggrid_available, current_date)} :
        Render(r)

\* engineers.csv as found by the first run: absent, a legacy file without PTO_
\* columns whose Annual PTO Days is a number somebody typed, or a file whose
\* Annual PTO Days is out of date
AppFiles(now) ==
    LET cols == WindowColumns(now)
        m1 == WindowMonths(now)[1]
    IN  {NoValue,
         [columns |-> {},
          rows |-> <<EngineerRow("Jane Doe ", 20, [c \in {} |-> 0])>>],
         [columns |-> cols,
          rows |-> <<EngineerRow("Jane Doe", 0, [ZeroPto(cols) EXCEPT ![m1] = 10]),
                     EngineerRow("John Smith", 0, ZeroPto(cols))>>]}

\* monthly_assignments.csv: a record in the window or in a month before it
AppLedgers(now) ==
    {<<Assignment("Jane Doe", "Feature A", WindowMonths(now)[1], 50)>>,
     <<Assignment("Jane Doe", "Feature A", Month(2025, 7), 85)>>}

Init ==
    /\ current_date \in AppDates
    /\ aggrid_available \in BOOLEAN
    /\ engineer_file \in AppFiles(current_date)
    /\ monthly_assignments_df \in AppLedgers(current_date)
    /\ engineers_df = NoValue
    /\ full_engineers_data = NoValue
    /\ local_engineers_df = NoValue
    /\ ops = 0
    /\ pc = "boot"
    /\ utilization_data = <<>>
    /\ availability_details = <<>>
    /\ availability_summary = <<>>
    /\ quarterly_data = <<>>
    /\ engineer_metrics = <<>>
    /\ quarterly_metrics = <<>>
    /\ month_str = NoValue
    /\ quarter_str = NoValue
    /\ monthly_assignments_file = NoValue
    /\ quarter_month_list = NoValue
    /\ all_quarters = NoValue
    /\ sorted_quarters = NoValue
    /\ program_quarterly = NoValue
    /\ fig_program_trend = NoValue
    /\ fig_feature_trend = NoValue
    /\ exception = "None"

FirstRun ==
    /\ pc = "boot"
    /\ pc' = "ready"
    /\ ops' = ops
    /\ Rerun(Current)

\* lines 1196-1200
ReloadFromFile ==
    /\ Interaction
    /\ \E t \in {Top} : Rerun([t EXCEPT !.session = NoValue])

\* lines 1202-1228
FixPto ==
    /\ Interaction
    /\ \E t \in {Top} : Rerun(FixPtoHandler(t, monthly_assignments_df))

\* lines 1242-1270
QuickAddEngineer ==
    /\ Interaction
    /\ \E new_name \in QuickAddNames :
          IF StrStrip(new_name) # ""
          THEN \E t \in {Top} : Rerun(QuickAddHandler(t, new_name))
          ELSE \E t \in {Table} : Render(t)

\* lines 1313-1333 with st_aggrid, lines 1376-1429 without
EditEngineerTable ==
    /\ Interaction
    /\ \E t \in {Table} :
       \E i \in DOMAIN t.local.rows : \E v \in TableEditNames :
          /\ i = 1
          /\ v # t.local.rows[i].Engineer_Name
          /\ \E r \in {IF aggrid_available THEN AgGridEditHandler(t, i, v)
                                            ELSE DataEditorHandler(t, i, v)} :
                Render(r)

\* lines 1438-1452
DeleteEngineer ==
    /\ Interaction
    /\ \E t \in {Table} : \E i \in DOMAIN t.local.rows :
          Rerun(DeleteHandler(t, t.local.rows[i].Engineer_Name))

\* lines 1486-1519: the user changes one month input; the inputs left alone
\* return current_value
EditMonthlyPto ==
    /\ Interaction
    /\ \E t \in {Table} : \E selected \in ValidEngineerNames(t.local) :
       \E k \in EditedWindowIndexes : \E new_value \in PtoEditValues :
          LET month_key == WindowMonths(current_date)[k]
              idx == EngineerIdx(t.local, selected)
          IN  /\ month_key \in t.local.columns
              /\ new_value # t.local.rows[idx].PTO[month_key]
              /\ \E r \in {PtoEditHandler(t, selected, month_key, new_value)} :
                    Render(r)

\* lines 1526-1537
ClearAllPto ==
    /\ Interaction
    /\ \E t \in {Table} : \E selected \in ValidEngineerNames(t.local) :
          Rerun(ClearAllPtoHandler(t, selected))

\* lines 1539-1550
ApplyToAllMonths ==
    /\ Interaction
    /\ \E t \in {Table} : \E selected \in ValidEngineerNames(t.local) :
       \E quick_fill \in QuickFillValues :
          Rerun(ApplyToAllHandler(t, selected, quick_fill))

\* lines 1554-1563
SaveEngineerChanges ==
    /\ Interaction
    /\ \E t \in {Table} : \E r \in {SaveHandler(t)} : Render(r)

\* lines 2050-2087
Refresh ==
    /\ Interaction
    /\ \E t \in {Table} : Rerun(RefreshHandler(t, current_date))

Next ==
    \/ FirstRun
    \/ ReloadFromFile
    \/ FixPto
    \/ QuickAddEngineer
    \/ EditEngineerTable
    \/ DeleteEngineer
    \/ EditMonthlyPto
    \/ ClearAllPto
    \/ ApplyToAllMonths
    \/ SaveEngineerChanges
    \/ Refresh

Spec == Init /\ [][Next]_vars

(***************************************************************************)
(* What the claims speak about, stated from the inputs of the render.      *)
(* qd is the window grouped by quarter, QuartersDict(current_date).        *)
(***************************************************************************)
Computed == pc \in {"chart", "team", "done"}

\* the window entries that fall into a quarter, and the calendar months among them
QuarterEntries(qd, quarter) == QuarterMonthsOf(qd, quarter)
QuarterMonthSet(qd, quarter) == Range(QuarterEntries(qd, quarter))
WindowQuarters(qd) == Range(QuarterKeys(qd))

RosterNames == {engineers_df.rows[i].Engineer_Name : i \in DOMAIN engineers_df.rows}

\* the ledger records of an engineer in a set of months
RecordsOf(engineer, months) ==
    {i \in DOMAIN monthly_assignments_df :
        /\ monthly_assignments_df[i].Engineer_Name = engineer
        /\ monthly_assignments_df[i].Month \in months}

\* raw allocation of an engineer in a calendar month
RawAllocation(engineer, month) ==
    SumOver([i \in DOMAIN monthly_assignments_df |->
                monthly_assignments_df[i].Allocation],
            RecordsOf(engineer, {month}))

AssignedMonths(qd, engineer, quarter) ==
    {m \in QuarterMonthSet(qd, quarter) : RawAllocation(engineer, m) > 0}

\* PTO half days of an engineer in a calendar month, from the roster
RosterPto(engineer, month) ==
    LET i == CHOOSE j \in DOMAIN engineers_df.rows :
                 engineers_df.rows[j].Engineer_Name = engineer
    IN  engineers_df.rows[i].PTO[month]

\* working half days left over the window entries of a quarter
WorkingHalfDays(qd, engineer, quarter) ==
    LET e == QuarterEntries(qd, quarter)
    IN  SumSeq([i \in DOMAIN e |-> Max(0, 44 - RosterPto(engineer, e[i]))])

DetailOf(engineer, quarter) ==
    CHOOSE r \in Range(availability_details) :
        r.Engineer = engineer /\ r.Quarter = quarter

UtilizationOf(engineer, quarter) ==
    CHOOSE r \in Range(utilization_data) :
        r.Engineer = engineer /\ r.Quarter = quarter

(***************************************************************************)
(* C1  Sparse-month averaging: with k > 0 the number of months of the      *)
(* quarter whose raw allocation is positive, Total Allocation % and        *)
(* Effective Allocation % are (sum of the raw allocation of those k        *)
(* months) / k, at the one decimal the columns carry.                      *)
(***************************************************************************)
C1_SparseMonthAveraging ==
    Computed =>
        LET qd == QuartersDict(current_date)
        IN  \A e \in RosterNames : \A q \in WindowQuarters(qd) :
                LET months == AssignedMonths(qd, e, q)
                    k == Cardinality(months)
                    total == SumOver([m \in months |-> RawAllocation(e, m)], months)
                IN  k > 0 =>
                        /\ DetailOf(e, q).Total_Allocation_pct = Round1(Frac(total, k))
                        /\ DetailOf(e, q).Effective_Allocation_pct =
                              Round1(Frac(total, k))

(***************************************************************************)
(* C2  Zero-assignment quarter.  As claimed: Total Allocation % = 0,       *)
(* Available % = 100 and Status = "Available" for every PTO.               *)
(***************************************************************************)
NoAssignment(qd, e, q) == RecordsOf(e, QuarterMonthSet(qd, q)) = {}

C2_ZeroAssignmentAsClaimed ==
    Computed =>
        LET qd == QuartersDict(current_date)
        IN  \A e \in RosterNames : \A q \in WindowQuarters(qd) :
                NoAssignment(qd, e, q) =>
                    /\ DetailOf(e, q).Total_Allocation_pct = 0
                    /\ DetailOf(e, q).Available_pct = 1000
                    /\ UtilizationOf(e, q).Status = "Available"

\* C2 as amended: Total Allocation % = 0, Status = "Available", and Available % is
\* 100 times the average working-days ratio of the quarter's window months, rounded
\* to one decimal (100 when no working day is left in them).
C2_ZeroAssignmentQuarter ==
    Computed =>
        LET qd == QuartersDict(current_date)
        IN  \A e \in RosterNames : \A q \in WindowQuarters(qd) :
                NoAssignment(qd, e, q) =>
                    LET w == WorkingHalfDays(qd, e, q)
                        n == Len(QuarterEntries(qd, q))
                    IN  /\ DetailOf(e, q).Total_Allocation_pct = 0
                        /\ DetailOf(e, q).Available_pct =
                              (IF w > 0 THEN Round1(Frac(100 * w, 44 * n)) ELSE 1000)
                        /\ UtilizationOf(e, q).Status = "Available"

\* a quarter without assignment of an engineer who has PTO in it: less than 100%
C2_Witness ==
    /\ Computed
    /\ LET qd == QuartersDict(current_date)
       IN  \E e \in RosterNames : \E q \in WindowQuarters(qd) :
              /\ NoAssignment(qd, e, q)
              /\ \E m \in QuarterMonthSet(qd, q) : RosterPto(e, m) > 0
              /\ DetailOf(e, q).Total_Allocation_pct = 0
              /\ DetailOf(e, q).Available_pct < 1000

(***************************************************************************)
(* C3  PTO reduces availability, not allocation.  As claimed: an engineer  *)
(* whose only assignment in the quarter is A% in month m, with p PTO days  *)
(* in m, has Effective Allocation % = A and                                *)
(* Available % = max(0, 100*(22-p)/22 - A).                                *)
(***************************************************************************)
SingleAssignment(qd, e, q, i) ==
    /\ RecordsOf(e, QuarterMonthSet(qd, q)) = {i}
    /\ monthly_assignments_df[i].Allocation > 0

C3_PtoAsClaimed ==
    Computed =>
        LET qd == QuartersDict(current_date)
        IN  \A e \in RosterNames : \A q \in WindowQuarters(qd) :
                \A i \in DOMAIN monthly_assignments_df :
                    SingleAssignment(qd, e, q, i) =>
                        LET A == monthly_assignments_df[i].Allocation
                            p == RosterPto(e, monthly_assignments_df[i].Month)
                        IN  /\ DetailOf(e, q).Effective_Allocation_pct = 10 * A
                            /\ DetailOf(e, q).Available_pct =
                                  Round1(FracMax0(FracSub(Frac(100 * (44 - p), 44),
                                                          Frac(A, 1))))

\* C3 as amended: Effective Allocation % = A, and Available % =
\* max(0, 100*r - A) rounded to one decimal, where r is the average of
\* (22 - PTO)/22 over all window months of the quarter (1 when no working day is
\* left in them), not the ratio of month m alone.
C3_PtoReducesAvailability ==
    Computed =>
        LET qd == QuartersDict(current_date)
        IN  \A e \in RosterNames : \A q \in WindowQuarters(qd) :
                \A i \in DOMAIN monthly_assignments_df :
                    SingleAssignment(qd, e, q, i) =>
                        LET A == monthly_assignments_df[i].Allocation
                            w == WorkingHalfDays(qd, e, q)
                            n == Len(QuarterEntries(qd, q))
                            r == IF w > 0 THEN Frac(w, 44 * n) ELSE Frac(1, 1)
                        IN  /\ DetailOf(e, q).Effective_Allocation_pct = 10 * A
                            /\ DetailOf(e, q).Available_pct =
                                  Round1(FracMax0(FracSub(Frac(100 * r.n, r.d),
                                                          Frac(A, 1))))

\* 50% in a month with 11 PTO days, the only window month of its quarter:
\* Effective Allocation % 50.0 and Available % 0.0
C3_Witness ==
    /\ Computed
    /\ LET qd == QuartersDict(current_date)
       IN  \E e \in RosterNames : \E q \in WindowQuarters(qd) :
              \E i \in DOMAIN monthly_assignments_df :
                  /\ SingleAssignment(qd, e, q, i)
                  /\ monthly_assignments_df[i].Allocation = 50
                  /\ RosterPto(e, monthly_assignments_df[i].Month) = 22
                  /\ DetailOf(e, q).Effective_Allocation_pct = 500
                  /\ DetailOf(e, q).Available_pct = 0

(***************************************************************************)
(* C4  Canonical PTO policy: for every engineer and quarter with at least  *)
(* one assigned month, effective allocation equals the averaged raw        *)
(* allocation, and available capacity equals                               *)
(* max(0, 100*avg_working_days_ratio - effective_allocation), where the    *)
(* working days ratio of a month is max(0, 22 - PTO)/22.                   *)
(***************************************************************************)
C4_CanonicalPtoPolicy ==
    Computed =>
        LET qd == QuartersDict(current_date)
        IN  \A i \in DOMAIN utilization_data :
                LET r == utilization_data[i]
                    w == WorkingHalfDays(qd, r.Engineer, r.Quarter)
                    n == Len(QuarterEntries(qd, r.Quarter))
                IN  r.Months_with_Assignments > 0 =>
                        /\ FracEq(r.Effective_Allocation, r.Total_Allocation)
                        /\ FracEq(r.Available_Capacity,
                                  FracMax0(FracSub(Frac(100 * w, 44 * n),
                                                   r.Effective_Allocation)))

(***************************************************************************)
(* C5  Status classification: for every aggregator row, Status is          *)
(* "Over-allocated" iff effective allocation > 100, "Fully Occupied" iff   *)
(* 85 <= effective allocation <= 100, "Available" iff effective            *)
(* allocation < 85; the three cases are exhaustive and exclusive.          *)
(***************************************************************************)
C5_StatusClassification ==
    Computed =>
        \A i \in DOMAIN utilization_data :
            LET r == utilization_data[i]
                e == r.Effective_Allocation
            IN  /\ r.Status \in {"Over-allocated", "Fully Occupied", "Available"}
                /\ r.Status = "Over-allocated" <=> FracLt(Frac(100, 1), e)
                /\ r.Status = "Fully Occupied" <=>
                      (FracLe(Frac(85, 1), e) /\ FracLe(e, Frac(100, 1)))
                /\ r.Status = "Available" <=> FracLt(e, Frac(85, 1))

\* a row whose effective allocation is exactly 85 is "Fully Occupied", next to a
\* row below the threshold that is "Available"
C5_Witness ==
    /\ Computed
    /\ \E i \in DOMAIN utilization_data :
          /\ utilization_data[i].Effective_Allocation = Frac(85, 1)
          /\ utilization_data[i].Status = "Fully Occupied"
    /\ \E i \in DOMAIN utilization_data :
          /\ FracLt(utilization_data[i].Effective_Allocation, Frac(85, 1))
          /\ utilization_data[i].Status = "Available"

(***************************************************************************)
(* C6  Fiscal quarter mapping: for every valid month, get_fiscal_quarter   *)
(* returns Q1 for Aug-Oct, Q2 for Nov-Jan, Q3 for Feb-Apr, Q4 for May-Jul, *)
(* with fiscal year = calendar year + 1 for Aug-Dec and = calendar year    *)
(* for Jan-Jul (2025-07 -> Q4 FY2025, 2025-08 -> Q1 FY2026,                *)
(* 2026-01 -> Q2 FY2026).                                                  *)
(***************************************************************************)
C6_FiscalQuarterMapping ==
    (pc = "fiscal" /\ quarter_str # NoValue) =>
        /\ quarter_str.q = (CASE month_str.m \in {8, 9, 10} -> 1
                              [] month_str.m \in {11, 12, 1} -> 2
                              [] month_str.m \in {2, 3, 4} -> 3
                              [] month_str.m \in {5, 6, 7} -> 4)
        /\ quarter_str.fy = (IF month_str.m \in 8..12 THEN month_str.y + 1
                             ELSE month_str.y)
        /\ month_str = Month(2025, 7) => quarter_str = QuarterLabel(4, 2025)
        /\ month_str = Month(2025, 8) => quarter_str = QuarterLabel(1, 2026)
        /\ month_str = Month(2026, 1) => quarter_str = QuarterLabel(2, 2026)

\* August 2025 has been mapped to Q1 FY2026
C6_Witness ==
    /\ pc = "fiscal"
    /\ month_str = Month(2025, 8)
    /\ quarter_str = QuarterLabel(1, 2026)

(***************************************************************************)
(* C7  Lookahead window: for every current date the window is 12 calendar  *)
(* months grouped into exactly 4 fiscal quarters, so the aggregator emits  *)
(* exactly 4 quarter rows for each roster engineer.                        *)
(***************************************************************************)
C7_LookaheadWindow ==
    Computed =>
        LET qd == QuartersDict(current_date)
        IN  /\ Cardinality(Range(WindowMonths(current_date))) = 12
            /\ Len(qd) = 4
            /\ \A e \in RosterNames :
                  Cardinality({i \in DOMAIN availability_details :
                                  availability_details[i].Engineer = e}) = 4

(***************************************************************************)
(* C8  Annual PTO invariant: after any sequence of roster operations,      *)
(* every engineer's Annual PTO Days, including the value reported in the   *)
(* availability summary, equals the sum of that engineer's monthly PTO_    *)
(* values.                                                                 *)
(***************************************************************************)
AnnualIsSum(df) ==
    \A i \in DOMAIN df.rows :
        df.rows[i].Annual_PTO_Days = SumOver(df.rows[i].PTO, df.columns)

C8_AnnualPtoInvariant ==
    pc = "ready" =>
        /\ AnnualIsSum(engineers_df)
        /\ \A i \in DOMAIN availability_summary :
              LET engineer_matches ==
                      EngineerMatches(engineers_df, availability_summary[i].Engineer)
              IN  engineer_matches # <<>> =>
                      availability_summary[i].Annual_PTO_Days =
                          SumOver(engineer_matches[1].PTO, engineers_df.columns)

(***************************************************************************)
(* C9  Team summary consistency: the per-engineer quarterly allocation     *)
(* that generate_team_utilization_summary averages across engineers and    *)
(* uses to count status buckets equals the value (allocation and status)   *)
(* computed by the aggregator for the same engineer and quarter.           *)
(***************************************************************************)
C9_TeamSummaryConsistency ==
    pc = "done" =>
        \A i \in DOMAIN engineer_metrics :
            LET m == engineer_metrics[i]
                u == UtilizationOf(m.Engineer, m.Quarter)
            IN  /\ FracEq(m.avg_allocation, u.Total_Allocation)
                /\ FracEq(m.avg_effective_allocation, u.Effective_Allocation)
                /\ m.category = u.Status

(***************************************************************************)
(* C10  Matrix consistency: the matrix of                                  *)
(* generate_quarterly_availability_chart shows Avg Allocated % and Avg     *)
(* Available % equal to the aggregator's Effective Allocation % and        *)
(* Available % for the same (engineer, quarter).                           *)
(***************************************************************************)
C10_MatrixConsistency ==
    pc \in {"team", "done"} =>
        \A i \in DOMAIN quarterly_data :
            LET m == quarterly_data[i]
                d == DetailOf(m.Engineer, m.Quarter)
            IN  /\ m.Avg_Allocated_pct = d.Effective_Allocation_pct
                /\ m.Avg_Available_pct = d.Available_pct

(***************************************************************************)
(* C11  PTO lookup with fallback.  As claimed: the PTO days used by the    *)
(* aggregator for an engineer and month are the engineer's value in the    *)
(* per-month PTO map when the month's entry exists, and annual_pto / 12    *)
(* when it is absent.  The PTO days of a row are the sum over the window   *)
(* months of its quarter; both sides are multiplied by 12.                 *)
(***************************************************************************)
RosterRow(engineer) ==
    engineers_df.rows[CHOOSE j \in DOMAIN engineers_df.rows :
                          engineers_df.rows[j].Engineer_Name = engineer]

\* the sum over the window months of a quarter of 12 times the engineer's entry,
\* with `absent` taken for a month that has no entry
PtoTwelfths(qd, engineer, quarter, absent) ==
    LET e == QuarterEntries(qd, quarter)
        row == RosterRow(engineer)
    IN  SumSeq([i \in DOMAIN e |->
                   IF e[i] \in engineers_df.columns THEN 12 * row.PTO[e[i]]
                   ELSE absent])

C11_PtoLookupAsClaimed ==
    pc = "chart" =>
        LET qd == QuartersDict(current_date)
        IN  \A i \in DOMAIN utilization_data :
                LET r == utilization_data[i]
                IN  12 * r.PTO_Days =
                        PtoTwelfths(qd, r.Engineer, r.Quarter,
                                    RosterRow(r.Engineer).Annual_PTO_Days)

\* C11 as amended: the PTO days used for an engineer and month are the engineer's
\* value in the per-month PTO map when the month's entry exists, and 0 when it is
\* absent; the annual total is never consulted.
C11_PtoLookup ==
    pc = "chart" =>
        LET qd == QuartersDict(current_date)
        IN  \A i \in DOMAIN utilization_data :
                LET r == utilization_data[i]
                IN  /\ 12 * r.PTO_Days = PtoTwelfths(qd, r.Engineer, r.Quarter, 0)
                    /\ r.Working_Days + r.PTO_Days =
                          44 * Len(QuarterEntries(qd, r.Quarter))

\* a row of an engineer with 12 annual PTO days whose quarter has a month without
\* entry: only the entry that exists is counted
C11_Witness ==
    /\ pc = "chart"
    /\ LET qd == QuartersDict(current_date)
       IN  \E i \in DOMAIN utilization_data :
              LET r == utilization_data[i]
              IN  /\ \E m \in QuarterMonthSet(qd, r.Quarter) :
                        m \notin engineers_df.columns
                  /\ RosterRow(r.Engineer).Annual_PTO_Days = 24
                  /\ r.PTO_Days = 24

(***************************************************************************)
(* C12  Empty input.  When the roster is empty or the ledger is empty, the *)
(* aggregator returns a result whose set of columns is identical to the    *)
(* set of columns of a non-empty result (and, with an empty roster, a      *)
(* result without rows).                                                   *)
(***************************************************************************)
C12_EmptyInput ==
    (pc = "chart" /\ (engineers_df.rows = <<>> \/ monthly_assignments_df = <<>>)) =>
        /\ engineers_df.rows = <<>> =>
              availability_summary = <<>> /\ availability_details = <<>>
        /\ SummaryColumns(availability_summary) = SummaryRowKeys
        /\ DetailsColumns(availability_details) = DetailRowKeys

(***************************************************************************)
(* C13  Malformed month never aborts grouping.  For every ledger that      *)
(* contains a record whose Month is malformed, that record's quarter is    *)
(* "Unknown" and the quarterly grouping over the ledger, including the     *)
(* chronological sort of the quarter labels, completes and yields the      *)
(* sums of all other rows.                                                 *)
(***************************************************************************)
C13_MalformedMonthGrouping ==
    (/\ pc = "distribution"
     /\ \E i \in DOMAIN monthly_assignments_df :
           ~StrptimeOk(monthly_assignments_df[i].Month)) =>
        /\ \A i \in DOMAIN monthly_assignments_df :
              ~StrptimeOk(monthly_assignments_df[i].Month) =>
                  QuarterColumn(monthly_assignments_df)[i] = Unknown
        /\ exception = "None"
        /\ Len(sorted_quarters) = Len(all_quarters)
        /\ \A i \in DOMAIN monthly_assignments_df :
              StrptimeOk(monthly_assignments_df[i].Month) =>
                  \E r \in program_quarterly :
                      /\ r.Quarter = get_fiscal_quarter(monthly_assignments_df[i].Month)
                      /\ r.Value = monthly_assignments_df[i].Program

(***************************************************************************)
(* C14  get_fiscal_quarter is total: for every input that is not a valid   *)
(* "YYYY-MM" month it returns the sentinel "Unknown" (no exception reaches *)
(* the caller), and for every valid month it returns a label other than    *)
(* "Unknown".                                                              *)
(***************************************************************************)
ValidMonthInput(ms) ==
    /\ DOMAIN ms = {"y", "m"}
    /\ ms.y \in 1..9999
    /\ ms.m \in 1..12

C14_FiscalQuarterTotal ==
    (pc \in {"fiscal", "months"} /\ month_str # NoValue /\ quarter_str # NoValue) =>
        /\ ~ValidMonthInput(month_str) => quarter_str = Unknown
        /\ ValidMonthInput(month_str) =>
              quarter_str # Unknown /\ quarter_str.q \in 1..4

\* "2025-13" has been mapped to "Unknown"
C14_Witness ==
    /\ pc = "fiscal"
    /\ month_str = Month(2025, 13)
    /\ quarter_str = Unknown

(***************************************************************************)
(* C15  Quarter/month round trip: for every valid quarter label q,         *)
(* get_quarter_months(q) is an ordered sequence of exactly 3 consecutive   *)
(* calendar months and get_fiscal_quarter(m) = q for each of them; and for *)
(* every valid month m, m is a member of                                   *)
(* get_quarter_months(get_fiscal_quarter(m)).                              *)
(***************************************************************************)
NextCalendarMonth(a) == IF a.m = 12 THEN Month(a.y + 1, 1) ELSE Month(a.y, a.m + 1)

C15_QuarterMonthRoundTrip ==
    pc = "months" =>
        /\ quarter_str # Unknown =>
              /\ Len(quarter_month_list) = 3
              /\ quarter_month_list[2] = NextCalendarMonth(quarter_month_list[1])
              /\ quarter_month_list[3] = NextCalendarMonth(quarter_month_list[2])
              /\ \A i \in 1..3 : get_fiscal_quarter(quarter_month_list[i]) = quarter_str
        /\ (month_str # NoValue /\ ValidMonthInput(month_str)) =>
              \E i \in DOMAIN quarter_month_list : quarter_month_list[i] = month_str

\* Q2 FY2026 has been expanded to November 2025 .. January 2026, and January 2026
\* has been mapped to Q2 FY2026 and found in its months
C15_Witness ==
    /\ pc = "months"
    /\ quarter_str = QuarterLabel(2, 2026)
    /\ \/ /\ month_str = NoValue
          /\ quarter_month_list[3] = Month(2026, 1)
          /\ quarter_month_list[1] = Month(2025, 11)
       \/ /\ month_str = Month(2026, 1)
          /\ quarter_month_list[3] = month_str

(***************************************************************************)
(* C16  Chronological ordering: for every list of valid quarter labels,    *)
(* sort_quarters_chronologically returns a permutation of the list ordered *)
(* by (fiscal year, quarter number) ascending, not lexicographically:      *)
(* ["Q3 FY2025", "Q1 FY2026", "Q4 FY2024"] yields                          *)
(* ["Q4 FY2024", "Q3 FY2025", "Q1 FY2026"].                                *)
(***************************************************************************)
Occurrences(s, x) == Cardinality({i \in DOMAIN s : s[i] = x})

C16_ChronologicalOrdering ==
    pc = "sorted" =>
        /\ Len(sorted_quarters) = Len(all_quarters)
        /\ \A x \in SortLabels :
              Occurrences(sorted_quarters, x) = Occurrences(all_quarters, x)
        /\ \A i \in 1..(Len(sorted_quarters) - 1) :
              \/ sorted_quarters[i].fy < sorted_quarters[i + 1].fy
              \/ /\ sorted_quarters[i].fy = sorted_quarters[i + 1].fy
                 /\ sorted_quarters[i].q <= sorted_quarters[i + 1].q
        /\ all_quarters = <<QuarterLabel(3, 2025), QuarterLabel(1, 2026),
                            QuarterLabel(4, 2024)>> =>
              sorted_quarters = <<QuarterLabel(4, 2024), QuarterLabel(3, 2025),
                                  QuarterLabel(1, 2026)>>

\* the list of the example has been sorted
C16_Witness ==
    /\ pc = "sorted"
    /\ all_quarters = <<QuarterLabel(3, 2025), QuarterLabel(1, 2026),
                        QuarterLabel(4, 2024)>>
    /\ sorted_quarters[1] = QuarterLabel(4, 2024)

(***************************************************************************)
(* C17  Malformed numeric input: a ledger record whose Allocation % is     *)
(* not numeric, or a roster PTO value that is not numeric, is treated as 0 *)
(* by the aggregation; the record is not dropped, and the computation for  *)
(* all other rows and engineers completes with the values it would have    *)
(* had anyway.                                                             *)
(***************************************************************************)
IsNumeric(cell) == DOMAIN cell = {"num"}

\* the frames in which every cell that is not numeric has been replaced by 0
ZeroedLedger ==
    [i \in DOMAIN monthly_assignments_file |->
        [monthly_assignments_file[i] EXCEPT
            !.Allocation = IF IsNumeric(@) THEN @.num ELSE 0]]

ZeroedRoster ==
    [columns |-> engineer_file.columns,
     rows |-> [i \in DOMAIN engineer_file.rows |->
                  LET pto == [c \in engineer_file.columns |->
                                 IF IsNumeric(engineer_file.rows[i].PTO[c])
                                 THEN engineer_file.rows[i].PTO[c].num ELSE 0]
                  IN  [engineer_file.rows[i] EXCEPT
                          !.PTO = pto,
                          !.Annual_PTO_Days = SumOver(pto, engineer_file.columns)]]]

\* the ledger without the malformed records
WellFormedLedger ==
    LET kept == SelectSeq(monthly_assignments_file, LAMBDA r : IsNumeric(r.Allocation))
    IN  [i \in DOMAIN kept |-> [kept[i] EXCEPT !.Allocation = @.num]]

\* the engineers none of whose cells is malformed
CleanEngineers ==
    {engineer_file.rows[i].Engineer_Name : i \in
        {j \in DOMAIN engineer_file.rows :
            /\ \A c \in engineer_file.columns : IsNumeric(engineer_file.rows[j].PTO[c])
            /\ \A k \in DOMAIN monthly_assignments_file :
                  monthly_assignments_file[k].Engineer_Name =
                      engineer_file.rows[j].Engineer_Name
                  => IsNumeric(monthly_assignments_file[k].Allocation)}}

C17_MalformedNumericInput ==
    pc \in {"start", "chart", "team", "done"} =>
        /\ Len(monthly_assignments_df) = Len(monthly_assignments_file)
        /\ monthly_assignments_df = ZeroedLedger
        /\ engineers_df = ZeroedRoster
        /\ pc # "start" =>
              /\ utilization_data =
                    UtilizationData(ChartIterations(ZeroedLedger, ZeroedRoster,
                                                    current_date))
              /\ SelectSeq(utilization_data, LAMBDA r : r.Engineer \in CleanEngineers) =
                    SelectSeq(UtilizationData(ChartIterations(WellFormedLedger,
                                                  ZeroedRoster, current_date)),
                              LAMBDA r : r.Engineer \in CleanEngineers)

\* the aggregation has run on a ledger with one malformed and one numeric record
\* and a roster with a malformed PTO cell
C17_Witness ==
    /\ pc = "chart"
    /\ \E i \in DOMAIN monthly_assignments_file :
          /\ ~IsNumeric(monthly_assignments_file[i].Allocation)
          /\ monthly_assignments_df[i].Allocation = 0
    /\ \E i \in DOMAIN monthly_assignments_file :
          /\ IsNumeric(monthly_assignments_file[i].Allocation)
          /\ monthly_assignments_file[i].Engineer_Name \in CleanEngineers
    /\ \E i \in DOMAIN engineer_file.rows :
          /\ ~IsNumeric(engineer_file.rows[i].PTO[CoerceMonth])
          /\ engineers_df.rows[i].PTO[CoerceMonth] = 0
    /\ utilization_data # <<>>

(***************************************************************************)
(* C18  Missing dimension column.  For every ledger that lacks a dimension *)
(* column (Program, Feature or Priority), the projection that depends on   *)
(* that column is reported as unavailable and every other projection is    *)
(* still produced; the aggregation as a whole never aborts.                *)
(***************************************************************************)
InWindow(r) == r.Month \in Range(WindowMonths(current_date))

HasWindowRows == \E i \in DOMAIN monthly_assignments_df : InWindow(monthly_assignments_df[i])

Lacks(column) == HasWindowRows /\ ~HasColumn(monthly_assignments_df, column)

C18_MissingDimensionColumn ==
    (pc = "trends" /\ HasWindowRows) =>
        /\ exception = "None"
        /\ fig_program_trend = NoValue <=> Lacks("Program")
        /\ fig_feature_trend = NoValue <=> Lacks("Feature")

(***************************************************************************)
(* C19  Trend denominator.  For every quarter and every Program (and every *)
(* Feature) value, the figure of the trend projection equals the sum of    *)
(* Allocation % over all ledger rows of the window sharing that quarter    *)
(* and that value, divided by the fixed constant 3, regardless of how many *)
(* months of the quarter have assignments.                                 *)
(***************************************************************************)
WindowSum(column, quarter, value) ==
    SumSeq([i \in DOMAIN monthly_assignments_df |->
               IF /\ InWindow(monthly_assignments_df[i])
                  /\ get_fiscal_quarter(monthly_assignments_df[i].Month) = quarter
                  /\ monthly_assignments_df[i][column] = value
               THEN monthly_assignments_df[i].Allocation ELSE 0])

WindowValues(column) ==
    {monthly_assignments_df[i][column] :
        i \in {j \in DOMAIN monthly_assignments_df : InWindow(monthly_assignments_df[j])}}

DividedByThree(fig, column) ==
    /\ \A p \in DOMAIN fig.y :
          FracEq(fig.y[p], Frac(WindowSum(column, p[1], p[2]), 3))
    /\ \A i \in DOMAIN monthly_assignments_df :
          (/\ InWindow(monthly_assignments_df[i])
           /\ monthly_assignments_df[i][column] \in fig.columns) =>
              <<get_fiscal_quarter(monthly_assignments_df[i].Month),
                monthly_assignments_df[i][column]>> \in DOMAIN fig.y

C20_RosterIdentity ==
    pc = "ready" =>
        /\ \A i \in DOMAIN engineers_df.rows :
              /\ engineers_df.rows[i].Engineer_Name # ""
              /\ StrStrip(engineers_df.rows[i].Engineer_Name) =
                    engineers_df.rows[i].Engineer_Name
        /\ \A i, j \in DOMAIN engineers_df.rows :
              engineers_df.rows[i].Engineer_Name = engineers_df.rows[j].Engineer_Name
              => i = j

(***************************************************************************)
(* C21  Availability bounds: for every roster with monthly PTO values in   *)
(* 0..22 and every ledger, every row produced by the aggregator and by the *)
(* quarterly matrix has available capacity >= 0 (also when the allocation  *)
(* exceeds the ceiling that PTO has shrunk) and <= 100.                    *)
(***************************************************************************)
C21_AvailabilityBounds ==
    /\ Computed =>
          /\ \A i \in DOMAIN utilization_data :
                /\ FracLe(Frac(0, 1), utilization_data[i].Available_Capacity)
                /\ FracLe(utilization_data[i].Available_Capacity, Frac(100, 1))
          /\ \A i \in DOMAIN availability_details :
                availability_details[i].Available_pct \in 0..1000
    /\ pc \in {"team", "done"} =>
          \A i \in DOMAIN quarterly_data :
              quarterly_data[i].Avg_Available_pct \in 0..1000

\* an engineer with PTO whose allocation exceeds 100: both functions report 0
C21_Witness ==
    /\ pc = "team"
    /\ \E i \in DOMAIN utilization_data :
          /\ FracLt(Frac(100, 1), utilization_data[i].Effective_Allocation)
          /\ utilization_data[i].PTO_Days > 0
          /\ utilization_data[i].Available_Capacity = Frac(0, 1)
    /\ \E i \in DOMAIN quarterly_data :
          /\ quarterly_data[i].Avg_Allocated_pct > 1000
          /\ quarterly_data[i].Avg_Available_pct = 0

(***************************************************************************)
(* C22  Per-month raw allocation: for every roster engineer and window     *)
(* month, the raw allocation of the month used by the aggregator is the    *)
(* sum of Allocation % over all ledger records with that engineer name and *)
(* that month (records for different features add up, so the sum may       *)
(* exceed 100), and 0 when there is no such record.  A quarter row shows   *)
(* the sum of its months divided by the number of months with a positive   *)
(* sum.                                                                    *)
(***************************************************************************)
C22_PerMonthRawAllocation ==
    pc = "chart" =>
        LET qd == QuartersDict(current_date)
        IN  \A i \in DOMAIN utilization_data :
                LET r == utilization_data[i]
                    e == QuarterEntries(qd, r.Quarter)
                    raw == [k \in DOMAIN e |-> RawAllocation(r.Engineer, e[k])]
                    k_assigned == Cardinality({k \in DOMAIN e : raw[k] > 0})
                IN  /\ r.Months_with_Assignments = k_assigned
                    /\ k_assigned > 0 =>
                          FracEq(r.Total_Allocation, Frac(SumSeq(raw), k_assigned))
                    /\ k_assigned = 0 => r.Total_Allocation = Frac(0, 1)

\* two records of different features in one month, 85% each: the row shows 170
C22_Witness ==
    /\ pc = "chart"
    /\ Len(monthly_assignments_df) = 2
    /\ monthly_assignments_df[1].Feature # monthly_assignments_df[2].Feature
    /\ monthly_assignments_df[1].Month = monthly_assignments_df[2].Month
    /\ \E i \in DOMAIN utilization_data :
          /\ utilization_data[i].Engineer = DefaultNames[1]
          /\ utilization_data[i].Total_Allocation = Frac(170, 1)

(***************************************************************************)
(* C24  Roster-driven iteration: for every ledger record whose engineer    *)
(* name is not in the roster, the aggregator emits no row for that name    *)
(* and the record contributes to the allocation of no roster engineer; the *)
(* rows of the roster engineers are the same as if the record were absent. *)
(***************************************************************************)
RosterLedger ==
    SelectSeq(monthly_assignments_df, LAMBDA r : r.Engineer_Name \in RosterNames)

C24_RosterDrivenIteration ==
    pc = "chart" =>
        /\ \A i \in DOMAIN utilization_data :
              utilization_data[i].Engineer \in RosterNames
        /\ \A i \in DOMAIN availability_summary :
              availability_summary[i].Engineer \in RosterNames
        /\ \E iterations \in {ChartIterations(RosterLedger, engineers_df, current_date)} :
              /\ utilization_data = UtilizationData(iterations)
              /\ availability_details = AvailabilityDetails(iterations)

\* a ledger with a record of Ann Lee, who is not in the roster, and a record of
\* Jane Doe in the same month has been aggregated
C24_Witness ==
    /\ pc = "chart"
    /\ Len(monthly_assignments_df) = 2
    /\ monthly_assignments_df[1].Engineer_Name = "Ann Lee"
    /\ monthly_assignments_df[2].Engineer_Name = DefaultNames[1]
    /\ monthly_assignments_df[1].Month = monthly_assignments_df[2].Month
    /\ \E i \in DOMAIN utilization_data :
          utilization_data[i].Total_Allocation =
              Frac(monthly_assignments_df[2].Allocation, 1)

FeatureInputs == {"Feature A", ""}
\* the Allocation % the user enters in the Add form and in the edit form
AddAllocation == 50
EditAllocation == 85

\* df['Engineer Name'].fillna('').astype(str).str.strip() on the ledger
StripLedgerNames(monthly_df) ==
    [i \in DOMAIN monthly_df |->
        [monthly_df[i] EXCEPT !.Engineer_Name = StrStrip(monthly_df[i].Engineer_Name)]]

\* lines 1651-1671: pd.concat of the new record, names stripped, saved
AddAssignmentHandler(monthly_df, selected_engineer, feature_name, selected_month, allocation_percent) ==
    StripLedgerNames(Append(monthly_df,
        Assignment(StrStrip(selected_engineer), feature_name, selected_month,
                   allocation_percent)))

\* lines 1727-1739: the Engineer input shows the record's engineer when the
\* roster has it, and the first engineer otherwise; None without engineers
EditEngineerDefault(valid_engineers, assignment_to_edit) ==
    IF valid_engineers = <<>> THEN "None"
    ELSE IF \E i \in DOMAIN valid_engineers :
                valid_engineers[i] = StrStrip(assignment_to_edit.Engineer_Name)
         THEN StrStrip(assignment_to_edit.Engineer_Name)
         ELSE valid_engineers[1]

\* lines 1771-1790: the Month input shows the record's month when it is one of
\* the 12 options, and the first option otherwise
EditMonthDefault(month_options, assignment_to_edit) ==
    IF \E i \in DOMAIN month_options : month_options[i] = assignment_to_edit.Month
    THEN assignment_to_edit.Month
    ELSE month_options[1]

\* lines 1813-1826: every input is written back to the record
UpdateAssignmentHandler(monthly_df, edit_idx, edit_engineer, edit_month, edit_allocation) ==
    StripLedgerNames(
        [monthly_df EXCEPT ![edit_idx] =
            [monthly_df[edit_idx] EXCEPT !.Engineer_Name = StrStrip(edit_engineer),
                                         !.Month = edit_month,
                                         !.Allocation = edit_allocation]])

\* line 1836: drop(index=edit_idx).reset_index(drop=True)
DeleteAssignmentHandler(monthly_df, edit_idx) ==
    [i \in 1..(Len(monthly_df) - 1) |->
        IF i < edit_idx THEN monthly_df[i] ELSE monthly_df[i + 1]]

\* st.rerun() after a handler that stored the ledger monthly_df
RerunLedger(s, monthly_df) ==
    \E r \in {PlainRun(s, monthly_df, aggrid_available, current_date)} :
        RenderLedger(r, monthly_df)

\* monthly_assignments.csv at the start: none, or a record of a month before
\* the window, whose feature the Add form of these runs never enters
AssignmentLedgers == {<<>>, <<Assignment(DefaultNames[1], "Feature 0", Month(2025, 7), 50)>>}

InitAssignments ==
    /\ current_date \in AppDates
    /\ aggrid_available \in BOOLEAN
    /\ engineer_file = NoValue
    /\ monthly_assignments_df \in AssignmentLedgers
    /\ engineers_df = NoValue
    /\ full_engineers_data = NoValue
    /\ local_engineers_df = NoValue
    /\ ops = 0
    /\ pc = "boot"
    /\ utilization_data = <<>>
    /\ availability_details = <<>>
    /\ availability_summary = <<>>
    /\ quarterly_data = <<>>
    /\ engineer_metrics = <<>>
    /\ quarterly_metrics = <<>>
    /\ month_str = NoValue
    /\ quarter_str = NoValue
    /\ monthly_assignments_file = NoValue
    /\ quarter_month_list = NoValue
    /\ all_quarters = NoValue
    /\ sorted_quarters = NoValue
    /\ program_quarterly = NoValue
    /\ fig_program_trend = NoValue
    /\ fig_feature_trend = NoValue
    /\ exception = "None"

\* lines 1651-1676: without a feature name the form is refused and the run goes
\* on to the render
AddMonthlyAssignment ==
    /\ Interaction
    /\ \E t \in {Table} : \E selected_engineer \in ValidEngineerNames(t.local) :
       \E feature_name \in FeatureInputs :
          IF feature_name # "" /\ AddAllocation > 0
          THEN RerunLedger(t, AddAssignmentHandler(monthly_assignments_df,
                                  selected_engineer, feature_name,
                                  WindowMonths(current_date)[1], AddAllocation))
          ELSE Render(t)

\* lines 1708-1832: the user selects a record, leaves the Engineer and Month
\* inputs as shown, keeps or changes Allocation %, and presses Update
UpdateAssignment ==
    /\ Interaction
    /\ \E t \in {Table} : \E edit_idx \in DOMAIN monthly_assignments_df :
       \E edit_allocation \in {monthly_assignments_df[edit_idx].Allocation,
                               EditAllocation} :
          LET assignment_to_edit == monthly_assignments_df[edit_idx]
              edit_engineer == EditEngineerDefault(AllEngineers(t.local.rows),
                                                   assignment_to_edit)
              edit_month == EditMonthDefault(WindowMonths(current_date),
                                             assignment_to_edit)
          IN  RerunLedger(t, UpdateAssignmentHandler(monthly_assignments_df,
                                 edit_idx, edit_engineer, edit_month,
                                 edit_allocation))

\* lines 1834-1840
DeleteAssignment ==
    /\ Interaction
    /\ \E t \in {Table} : \E edit_idx \in DOMAIN monthly_assignments_df :
          RerunLedger(t, DeleteAssignmentHandler(monthly_assignments_df, edit_idx))

NextAssignments ==
    \/ FirstRun
    \/ AddMonthlyAssignment
    \/ UpdateAssignment
    \/ DeleteAssignment
    \/ QuickAddEngineer
    \/ DeleteEngineer

SpecAssignments == InitAssignments /\ [][NextAssignments]_vars

(***************************************************************************)
(* C26  Window months: for every current date, the 12 month keys generated *)
(* for the lookahead window (current date + 30*i days, i = 0..11) are      *)
(* pairwise distinct and are exactly the 12 consecutive calendar months    *)
(* starting with the current month, so that no month is skipped and each   *)
(* calendar month contributes at most once to the sums of its quarter.     *)
(***************************************************************************)
RECURSIVE MonthAfter(_, _)
MonthAfter(month, k) ==
    IF k = 0 THEN month
    ELSE MonthAfter(IF month.m = 12 THEN Month(month.y + 1, 1)
                    ELSE Month(month.y, month.m + 1), k - 1)

C26_WindowMonths ==
    LET months == WindowMonths(current_date)
    IN  /\ \A i, j \in 1..12 : months[i] = months[j] => i = j
        /\ \A i \in 1..12 : months[i] = MonthAfter(StrftimeYm(current_date), i - 1)

\* the names an engineer of the roster can have in this model
PeopleNames == {"Jane Doe", "John Smith", "Ann Lee", "Jane Roe"}

\* the roster df has a row of the engineer whose PTO of the month is value
PtoStored(df, engineer, month, value) ==
    /\ df # NoValue
    /\ month \in df.columns
    /\ \E i \in DOMAIN df.rows :
          /\ df.rows[i].Engineer_Name = engineer
          /\ df.rows[i].PTO[month] = value

\* a run in which the user edits, clears or fills the PTO of another engineer
OtherEngineerPtoOperation(engineer) ==
    /\ Interaction
    /\ \E t \in {Table} : \E selected \in ValidEngineerNames(t.local) \ {engineer} :
          \/ \E k \in EditedWindowIndexes : \E new_value \in PtoEditValues :
                LET month_key == WindowMonths(current_date)[k]
                    idx == EngineerIdx(t.local, selected)
                IN  /\ month_key \in t.local.columns
                    /\ new_value # t.local.rows[idx].PTO[month_key]
                    /\ Render(PtoEditHandler(t, selected, month_key, new_value))
          \/ Rerun(ClearAllPtoHandler(t, selected))
          \/ \E quick_fill \in QuickFillValues :
                Rerun(ApplyToAllHandler(t, selected, quick_fill))

\* a run in which the user edits, in the table without st_aggrid, the row of
\* another engineer
OtherRowTableEdit(engineer) ==
    /\ Interaction
    /\ ~aggrid_available
    /\ \E t \in {Table} :
       \E i \in DOMAIN t.local.rows : \E v \in TableEditNames :
          /\ i = 1
          /\ t.local.rows[i].Engineer_Name # engineer
          /\ v # t.local.rows[i].Engineer_Name
          /\ Render(DataEditorHandler(t, i, v))

\* 22 days: in these runs a value that only an edit in Monthly PTO Management
\* puts in the roster (the files hold 5 days, Apply to All Months fills 5)
EditedPtoValue == Max(10, 44)

(***************************************************************************)
(* C27  PTO edits are not lost: a monthly PTO value set for engineer A in  *)
(* Monthly PTO Management and auto-saved is still in the session roster    *)
(* and in the stored roster after an operation that does not edit, clear   *)
(* or fill the PTO of A and does not delete A: after a PTO operation on    *)
(* another engineer B, and after an edit of another row in the table       *)
(* editor that rebuilds the roster from full_engineers_data.               *)
(***************************************************************************)
C27_PtoEditsNotLost ==
    [][\A engineer \in PeopleNames :
       \A k \in EditedWindowIndexes :
          LET month == WindowMonths(current_date)[k]
          IN  ( /\ PtoStored(engineers_df, engineer, month, EditedPtoValue)
                /\ PtoStored(engineer_file, engineer, month, EditedPtoValue)
                /\ \/ OtherEngineerPtoOperation(engineer)
                   \/ OtherRowTableEdit(engineer) )
              => /\ PtoStored(engineers_df', engineer, month, EditedPtoValue)
                 /\ PtoStored(engineer_file', engineer, month, EditedPtoValue)]_vars

\* a run in which Clear All PTO is pressed for the selected engineer
ClearAllPtoFor(selected) ==
    /\ Interaction
    /\ \E t \in {Table} :
          /\ selected \in ValidEngineerNames(t.local)
          /\ Rerun(ClearAllPtoHandler(t, selected))

\* every PTO_ value and Annual PTO Days of the engineer are 0 in df
PtoCleared(df, selected) ==
    \A i \in DOMAIN df.rows :
        df.rows[i].Engineer_Name = selected =>
            /\ df.rows[i].Annual_PTO_Days = 0
            /\ \A c \in df.columns : df.rows[i].PTO[c] = 0

\* the other engineers of the roster before have the same PTO values after
OthersPtoUnchanged(before, after, selected) ==
    \A i \in DOMAIN before.rows :
        StrStrip(before.rows[i].Engineer_Name) # selected =>
            \E j \in DOMAIN after.rows :
                /\ after.rows[j].Engineer_Name = StrStrip(before.rows[i].Engineer_Name)
                /\ \A c \in before.columns :
                      c \in after.columns
                          /\ after.rows[j].PTO[c] = before.rows[i].PTO[c]

(***************************************************************************)
(* C30  Clear All PTO postcondition: after Clear All PTO is pressed for an *)
(* engineer and the run that follows has rendered, every monthly PTO_      *)
(* value of that engineer and the engineer's Annual PTO Days are 0 in the  *)
(* session roster and in the stored roster, and the PTO values of the      *)
(* other engineers are what they were before the button was pressed.       *)
(***************************************************************************)
C30_ClearAllPto ==
    [][\A selected \in PeopleNames :
          ClearAllPtoFor(selected) =>
              /\ PtoCleared(engineers_df', selected)
              /\ PtoCleared(engineer_file', selected)
              /\ OthersPtoUnchanged(engineers_df, engineers_df', selected)
              /\ OthersPtoUnchanged(engineer_file, engineer_file', selected)]_vars

(***************************************************************************)
(* C23  Recompute on change: after an operation that changes the roster    *)
(* or the ledger, the utilization rows shown by the next render equal the  *)
(* aggregation of the current roster and the current ledger; no result     *)
(* computed from an earlier snapshot is shown.                             *)
(***************************************************************************)
C23_RecomputeOnChange ==
    [][( /\ pc = "ready"
         /\ \/ engineers_df' # engineers_df
            \/ monthly_assignments_df' # monthly_assignments_df )
       => utilization_data' =
              UtilizationData(ChartIterations(monthly_assignments_df',
                                              engineers_df', current_date))]_vars

\* every record of the ledger names an engineer of the session roster
ReferentialIntegrity ==
    \A i \in DOMAIN monthly_assignments_df :
        \E j \in DOMAIN engineers_df.rows :
            engineers_df.rows[j].Engineer_Name = monthly_assignments_df[i].Engineer_Name

\* the ledger holds no record that was in monthly_assignments.csv at the start:
\* its records are those the operations have put into an empty ledger
StartedEmpty ==
    \A i \in DOMAIN monthly_assignments_df :
        \A loaded \in AssignmentLedgers : \A k \in DOMAIN loaded :
            monthly_assignments_df[i].Feature # loaded[k].Feature

(***************************************************************************)
(* C28  Referential integrity: after any sequence of add-assignment,       *)
(* update-assignment, delete-assignment, add-engineer and delete-engineer  *)
(* operations starting from an empty ledger, the Engineer Name of every    *)
(* ledger record is the name of an engineer currently in the roster.       *)
(***************************************************************************)
C28_ReferentialIntegrity ==
    (pc = "ready" /\ StartedEmpty) => ReferentialIntegrity

(***************************************************************************)
(* C29  Update preserves untouched fields: Update Assignment pressed       *)
(* without the user changing the Engineer or Month inputs leaves the       *)
(* record's Engineer Name and Month as they were, also when the record's   *)
(* month is outside the 12 month options or its engineer is no longer in   *)
(* the roster, and leaves every other ledger record unchanged.             *)
(***************************************************************************)
C29_UpdatePreservesFields ==
    [][UpdateAssignment =>
          /\ Len(monthly_assignments_df') = Len(monthly_assignments_df)
          /\ \E edit_idx \in DOMAIN monthly_assignments_df :
                /\ monthly_assignments_df'[edit_idx].Engineer_Name =
                       monthly_assignments_df[edit_idx].Engineer_Name
                /\ monthly_assignments_df'[edit_idx].Month =
                       monthly_assignments_df[edit_idx].Month
                /\ \A i \in DOMAIN monthly_assignments_df \ {edit_idx} :
                       monthly_assignments_df'[i] = monthly_assignments_df[i]]_vars

====
